---- MODULE Spec2Model ----
(***************************************************************************)
(* Contract-Validation-AI-Hub: the evidence highlighter                    *)
(* (app/utils/docx_highlight.py, app/services/compliance_highlighter.py),  *)
(* the evidence normalisation of the policy routes (app/routes/policies.py)*)
(* the section builders and merge_soft_wraps (app/services/sectioner.py),   *)
(* the upload route (app/routes/contracts.py), the sentence chunker        *)
(* (app/services/chunk.py) and the report route                            *)
(* (app/routes/compliance_docx.py).                                        *)
(*                                                                         *)
(* A text is a sequence of one-character strings.  A paragraph is the      *)
(* sequence of its runs; a run is [text, highlight].                       *)
(***************************************************************************)
EXTENDS Integers, Sequences, FiniteSets, TLC

VARIABLES
    \* split_paragraph_by_spans(para, spans, color), one call
    sp_pc,      \* "idle" | "call" | "done"
    para,       \* the paragraph: its runs
    text,       \* the local text = para.text
    spans,      \* the argument spans
    merged,     \* the local merged
    color,      \* the argument color
    \* ComplianceHighlighter.build_and_save, one call
    hl_pc,      \* "idle" | "start" | "items" | "evidence" | "save" | "done" | "raised"
    doc,        \* the document: its paragraphs, in order
    items_left, \* items of violation_payload["violations"] not yet rendered
    ev_left,    \* evidence claims of the current item not yet looked at
    item,       \* the current item: [no, risk, violated, color]
    last_ev,    \* the locals of the last loop iteration of _add_clause
    saved,      \* doc.save(output_path) was called
    \* auto_violation / check_policy_violation, one request
    pol_pc,     \* "idle" | "start" | "loop" | "returned"
    route,      \* "auto" | "check"
    results,    \* the local results (auto_violation) or out (check_policy_violation)
    todo,       \* playbook clauses or policies not yet looked at
    response,   \* what the request returned: [status, ...]
    calls,      \* the services the request has called so far
    broad,      \* auto_violation's local chunks: "none" | "empty" | "chunks"
    \* section_text_with_pages / section_text_bold_aware, one call
    sect_pc,    \* "idle" | "loop" | "done"
    mode,       \* "pages" (section_text_with_pages) | "bold" (section_text_bold_aware)
    lines,      \* lines_with_pages / lines: the input, in order
    line_i,     \* the loop index i, 0-based
    sections,   \* the local sections
    cur_title,  \* the open section's title, or NoTitle
    cur_body,   \* the open section's body lines
    cur_min_page, \* cur_min_page / cur_ps, or NoPage
    cur_max_page, \* cur_max_page / cur_pe, or NoPage
    \* upload_contract, one request
    up_pc,      \* "idle" | "start" | "returned"
    sec_objs,   \* the local sec_objs, as Sections
    stored,     \* the chunks handed to store_embeddings, in order
    up_response, \* what the request returned: [status]
    \* chunk_text(text, max_length, overlap), one call
    ck_pc,      \* "idle" | "loop" | "done"
    ck_text,    \* the argument text
    max_length, \* the argument max_length
    overlap,    \* the argument overlap
    sentences,  \* the local sentences
    sent_i,     \* sentences already looked at by the loop
    chunks_out, \* the local chunks: [text, seed], seed the number of leading
                \* characters of text that are the overlap seed
    current_chunk, \* the local current_chunk
    cur_seed,   \* the number of leading characters of current_chunk that are
                \* the overlap seed and the space after it
    \* merge_soft_wraps(lines), one call
    mg_pc,      \* "idle" | "loop" | "done"
    mg_lines,   \* the argument lines
    mg_i,       \* lines already looked at by the loop
    mg_merged,  \* the local merged
    buf,        \* the local buf
    \* highlight_docx, one request
    hd_pc,      \* "idle" | "start" | "evidence" | "returned"
    hd_docs,    \* the local chunks: the stored chunk_index of each document, in
                \* the order the store returned them
    hd_claims,  \* chunk_index of the evidence claims not yet rendered
    hd_shown    \* the paragraphs added for evidence: [chunk_index, text_of]

splitVars == <<sp_pc, para, text, spans, merged, color>>
hlVars == <<hl_pc, doc, items_left, ev_left, item, last_ev, saved>>
polVars == <<pol_pc, route, results, todo, response, calls, broad>>
sectVars == <<sect_pc, mode, lines, line_i, sections, cur_title, cur_body,
              cur_min_page, cur_max_page>>
upVars == <<up_pc, sec_objs, stored, up_response>>
ckVars == <<ck_pc, ck_text, max_length, overlap, sentences, sent_i, chunks_out,
            current_chunk, cur_seed>>
mgVars == <<mg_pc, mg_lines, mg_i, mg_merged, buf>>
hdVars == <<hd_pc, hd_docs, hd_claims, hd_shown>>

vars == <<splitVars, hlVars, polVars, sectVars, upVars, ckVars, mgVars, hdVars>>

----------------------------------------------------------------------------
(* Bounds of the model *)

\* longest paragraph text handed to split_paragraph_by_spans on its own
MaxLen == 3
\* most spans in one call of split_paragraph_by_spans
MaxSpans == 2
\* most evidence claims of one violation item
MaxEv == 2
\* most violation items of one payload
MaxItems == 2
\* most playbook clauses, and most policies of one request
MaxClauses == 2
\* most evidence claims in one answer of the LLM
MaxLLMEv == 1
\* most lines of one document
MaxLines == 3
\* most pages of one document
MaxPage == 2
\* most lines of one document whose lines have many lengths
MaxTitleLines == 3
\* most chunks chunk_text returns to upload_contract
MaxChunks == 2
\* most characters of the text given to chunk_text
MaxText == 6
\* largest max_length given to chunk_text
MaxMaxLength == 6
\* largest overlap given to chunk_text
MaxOverlap == 2
\* most lines given to merge_soft_wraps
MaxMergeLines == 3
\* most chunks of the contract of a highlight_docx request
MaxStored == 3
\* most evidence claims of a highlight_docx request
MaxShown == 2

----------------------------------------------------------------------------
(* Python built-ins *)

Max(a, b) == IF a >= b THEN a ELSE b
Min(a, b) == IF a <= b THEN a ELSE b

\* text[a:b] for a, b >= 0: both ends are cut to len(text)
PySlice(txt, a, b) ==
    LET lo == Min(a, Len(txt))
        hi == Min(b, Len(txt))
    IN  IF lo >= hi THEN <<>> ELSE SubSeq(txt, lo + 1, hi)

\* text[a:] for a >= 0
PySliceFrom(txt, a) == PySlice(txt, a, Len(txt))

----------------------------------------------------------------------------
(* python-docx paragraphs *)

NoHighlight == "NONE"

Run(txt, highlight) == [text |-> txt, highlight |-> highlight]

\* doc.add_paragraph(text): one plain run when text is not empty
AddParagraph(txt) == IF txt = <<>> THEN <<>> ELSE <<Run(txt, NoHighlight)>>

RECURSIVE ParaTextFrom(_, _)
ParaTextFrom(p, k) ==
    IF k > Len(p) THEN <<>> ELSE p[k].text \o ParaTextFrom(p, k + 1)

\* para.text: the texts of the runs, concatenated
ParaText(p) == ParaTextFrom(p, 1)

----------------------------------------------------------------------------
(* app/utils/docx_highlight.py *)

risk_to_color_gt(risk) ==
    IF risk > 70 THEN "RED"
    ELSE IF risk > 40 THEN "YELLOW"
    ELSE "BRIGHT_GREEN"

risk_to_color(risk) ==
    IF risk >= 70 THEN "RED"
    ELSE IF risk >= 40 THEN "YELLOW"
    ELSE "BRIGHT_GREEN"

\* [(max(0, s), max(0, e)) for s, e in spans if e > s]
ClipSpans(sp) ==
    LET kept == SelectSeq(sp, LAMBDA x : x[2] > x[1])
    IN  [i \in 1..Len(kept) |-> <<Max(0, kept[i][1]), Max(0, kept[i][2])>>]

\* x goes behind every element whose start is <= its own: sorted() is stable
RECURSIVE InsertByStart(_, _)
InsertByStart(sorted, x) ==
    IF sorted = <<>> THEN <<x>>
    ELSE IF x[1] < sorted[Len(sorted)][1]
         THEN Append(InsertByStart(SubSeq(sorted, 1, Len(sorted) - 1), x),
                     sorted[Len(sorted)])
         ELSE Append(sorted, x)

RECURSIVE SortFrom(_, _, _)
SortFrom(sp, k, acc) ==
    IF k > Len(sp) THEN acc ELSE SortFrom(sp, k + 1, InsertByStart(acc, sp[k]))

SortedByStartDescending(sp) ==
    LET up == SortFrom(sp, 1, <<>>)
    IN  [i \in 1..Len(up) |-> up[Len(up) + 1 - i]]

\* sorted(..., key=lambda x: x[0])
SortedByStart(sp) == SortFrom(sp, 1, <<>>)

MergeStepNoAdjacent(m, x) ==
    IF m = <<>> \/ x[1] >= m[Len(m)][2]
    THEN Append(m, x)
    ELSE [m EXCEPT ![Len(m)] = <<m[Len(m)][1], Max(m[Len(m)][2], x[2])>>]

\* one iteration of `for s, e in spans` over merged
MergeStep(m, x) ==
    IF m = <<>> \/ x[1] > m[Len(m)][2]
    THEN Append(m, x)
    ELSE [m EXCEPT ![Len(m)] = <<m[Len(m)][1], Max(m[Len(m)][2], x[2])>>]

RECURSIVE MergeFrom(_, _, _)
MergeFrom(sp, k, m) ==
    IF k > Len(sp) THEN m ELSE MergeFrom(sp, k + 1, MergeStep(m, sp[k]))

\* the sort-and-merge step: the value of merged for the argument spans
SortMerge(sp) == MergeFrom(SortedByStart(ClipSpans(sp)), 1, <<>>)

\* if cursor < s: para.add_run(text[cursor:s])
PlainBefore(txt, cursor, s) ==
    IF cursor < s THEN <<Run(PySlice(txt, cursor, s), NoHighlight)>> ELSE <<>>

CursorAfterStart(s, e) == s

\* cursor = e
CursorAfter(s, e) == e

\* the rebuild loop and the trailing plain run
RECURSIVE RenderRuns(_, _, _, _, _)
RenderRuns(txt, mg, k, cursor, col) ==
    IF k > Len(mg)
    THEN IF cursor < Len(txt)
         THEN <<Run(PySliceFrom(txt, cursor), NoHighlight)>>
         ELSE <<>>
    ELSE PlainBefore(txt, cursor, mg[k][1])
         \o <<Run(PySlice(txt, mg[k][1], mg[k][2]), col)>>
         \o RenderRuns(txt, mg, k + 1, CursorAfter(mg[k][1], mg[k][2]), col)

\* split_paragraph_by_spans(para, spans, color): the paragraph afterwards
SplitParagraphBySpans(p, sp, col) ==
    IF ParaText(p) = <<>> THEN p
    ELSE RenderRuns(ParaText(p), SortMerge(sp), 1, 0, col)

----------------------------------------------------------------------------
(* A call of split_paragraph_by_spans on its own *)

Alphabet == <<"a", "b", "c", "d", "e", "f", "g", "h">>

\* the paragraph texts of the calls: "", "a", "ab", ...
Texts == {SubSeq(Alphabet, 1, n) : n \in 0..MaxLen}

\* offsets offered as span ends: below 0, inside the text, beyond its end
SpanOffsets == (0 - 1)..(MaxLen + 1)

SpanLists ==
    UNION {[1..n -> SpanOffsets \X SpanOffsets] : n \in 0..MaxSpans}

Colors == {"RED", "YELLOW", "BRIGHT_GREEN"}

\* cur_title = None
NoTitle ==
    [of |-> "None", part |-> "none", line |-> 0, len |-> 0,
     cut |-> FALSE, marker |-> FALSE]

\* cur_min_page = None
NoPage == 0

SplitIdle ==
    /\ sp_pc = "idle"
    /\ para = <<>>
    /\ text = <<>>
    /\ spans = <<>>
    /\ merged = <<>>
    /\ color = NoHighlight

HlIdle ==
    /\ hl_pc = "idle"
    /\ doc = <<>>
    /\ items_left = 0
    /\ ev_left = 0
    /\ item = [no |-> 0]
    /\ last_ev = [op |-> "none"]
    /\ saved = FALSE

PolIdle ==
    /\ pol_pc = "idle"
    /\ route = "none"
    /\ results = <<>>
    /\ todo = 0
    /\ response = [status |-> 0]
    /\ calls = {}
    /\ broad = "none"

SectIdle ==
    /\ sect_pc = "idle"
    /\ mode = "none"
    /\ lines = <<>>
    /\ line_i = 0
    /\ sections = <<>>
    /\ cur_title = NoTitle
    /\ cur_body = <<>>
    /\ cur_min_page = NoPage
    /\ cur_max_page = NoPage

UpIdle ==
    /\ up_pc = "idle"
    /\ sec_objs = <<>>
    /\ stored = <<>>
    /\ up_response = [status |-> 0]

MergeIdle ==
    /\ mg_pc = "idle"
    /\ mg_lines = <<>>
    /\ mg_i = 0
    /\ mg_merged = <<>>
    /\ buf = <<>>

HdIdle ==
    /\ hd_pc = "idle"
    /\ hd_docs = <<>>
    /\ hd_claims = <<>>
    /\ hd_shown = <<>>

ChunkIdle ==
    /\ ck_pc = "idle"
    /\ ck_text = <<>>
    /\ max_length = 0
    /\ overlap = 0
    /\ sentences = <<>>
    /\ sent_i = 0
    /\ chunks_out = <<>>
    /\ current_chunk = <<>>
    /\ cur_seed = 0

InitSplit ==
    /\ sp_pc = "call"
    /\ para \in {AddParagraph(t) : t \in Texts}
    /\ text = <<>>
    /\ spans \in SpanLists
    /\ merged = <<>>
    /\ color \in Colors
    /\ HlIdle
    /\ PolIdle
    /\ SectIdle
    /\ UpIdle
    /\ ChunkIdle
    /\ MergeIdle
    /\ HdIdle

\* lines 13-15: nothing to do on an empty paragraph
SplitReturnEmpty ==
    /\ sp_pc = "call"
    /\ ParaText(para) = <<>>
    /\ text' = ParaText(para)
    /\ sp_pc' = "done"
    /\ UNCHANGED <<para, spans, merged, color, hlVars, polVars, sectVars, upVars, ckVars, mgVars, hdVars>>

\* lines 17-37: sort and merge the spans, then clear the paragraph and
\* rebuild it from the merged spans
SplitRebuild ==
    /\ sp_pc = "call"
    /\ ParaText(para) # <<>>
    /\ text' = ParaText(para)
    /\ merged' = SortMerge(spans)
    /\ para' = RenderRuns(ParaText(para), SortMerge(spans), 1, 0, color)
    /\ sp_pc' = "done"
    /\ UNCHANGED <<spans, color, hlVars, polVars, sectVars, upVars, ckVars, mgVars, hdVars>>

NextSplit == SplitReturnEmpty \/ SplitRebuild

SpecSplit == InitSplit /\ [][NextSplit]_vars

----------------------------------------------------------------------------
(* app/services/compliance_highlighter.py *)

\* A value of a loosely typed payload: an integer, a non-numeric string, or
\* a key that is absent.
IntVal(n) == [k |-> "int", v |-> n]
StrVal == [k |-> "str", v |-> 0]
Missing == [k |-> "missing", v |-> 0]

\* d.get(key, default)
GetOr(x, default) == IF x.k = "missing" THEN IntVal(default) ELSE x

\* int(x) returns; otherwise it raises ValueError
IntReturns(x) == x.k = "int"

\* "The Term shall be 5 years unless terminated earlier for cause."
TermText ==
    <<"T", "h", "e", " ", "T", "e", "r", "m", " ", "s", "h", "a", "l", "l", " ",
      "b", "e", " ", "5", " ", "y", "e", "a", "r", "s", " ", "u", "n", "l", "e",
      "s", "s", " ", "t", "e", "r", "m", "i", "n", "a", "t", "e", "d", " ", "e",
      "a", "r", "l", "i", "e", "r", " ", "f", "o", "r", " ", "c", "a", "u", "s",
      "e", ".">>

ShortText == <<"a", "b", "c", "d">>

\* a stored chunk: a text, or None
TextChunk(t) == [none |-> FALSE, text |-> t]
NoneChunk == [none |-> TRUE, text |-> <<>>]

\* the argument chunks of build_and_save: chunk_index i is chunks[i + 1]
chunks == <<TextChunk(TermText), TextChunk(ShortText), NoneChunk>>

\* chunks[idx] or ""
ChunkOrEmpty(c) == IF c.none \/ c.text = <<>> THEN <<>> ELSE c.text

ClampNoUpper(n, txt) == Max(0, n)

ClampLenPlusOne(n, txt) == Max(0, Min(n, Len(txt) + 1))

\* max(0, min(n, len(text)))
Clamp(n, txt) == Max(0, Min(n, Len(txt)))

\* a paragraph of the document: what it is, the item and chunk it belongs
\* to (0 and -1 outside the items), and its runs
Paragraph(kind, itemNo, idx, runs) ==
    [kind |-> kind, item |-> itemNo, chunk_index |-> idx, runs |-> runs]

\* _add_header and the first _sep
HeaderParagraphs ==
    << Paragraph("report_title", 0, 0 - 1, <<Run(<<"Policy Violation Report">>, NoHighlight)>>),
       Paragraph("meta", 0, 0 - 1,
                 << Run(<<"Contract ID">>, NoHighlight),
                    Run(<<"Template Version">>, NoHighlight),
                    Run(<<"Overall Risk">>, NoHighlight) >>),
       Paragraph("sep", 0, 0 - 1, <<Run(<<"-----">>, NoHighlight)>>) >>

NoViolationsParagraph ==
    Paragraph("no_violations", 0, 0 - 1,
              <<Run(<<"No violations detected or insufficient evidence">>, NoHighlight)>>)

\* color = risk_to_color(risk if violated else 0)
ItemColor(risk, violated) == risk_to_color(IF violated THEN risk ELSE 0)

\* lines 24-36: the item's title and explanation paragraphs, and its color
AddClauseHead(Risks, Explanations) ==
    /\ hl_pc = "items"
    /\ items_left > 0
    /\ \E risk \in Risks, violated \in BOOLEAN, explanation \in Explanations,
          n \in 0..MaxEv :
          /\ item' = [no |-> item.no + 1, risk |-> risk, violated |-> violated,
                      color |-> ItemColor(risk, violated)]
          /\ doc' = doc \o
                 << Paragraph("clause_title", item.no + 1, 0 - 1,
                              <<Run(<<"title", risk>>, NoHighlight)>>),
                    Paragraph("explanation", item.no + 1, 0 - 1,
                              AddParagraph(IF explanation = <<>>
                                           THEN <<"No explanation provided.">>
                                           ELSE explanation)) >>
          /\ ev_left' = n
    /\ last_ev' = [op |-> "none"]
    /\ hl_pc' = "evidence"
    /\ UNCHANGED <<items_left, saved, splitVars, polVars, sectVars, upVars, ckVars, mgVars, hdVars>>

\* if e > s
HighlightWhen(s, e) == e > s

\* lines 47-49: the chunk's paragraph, highlighted when the span is not empty
EvidenceParagraph(txt, s, e, col) ==
    IF HighlightWhen(s, e)
    THEN SplitParagraphBySpans(AddParagraph(txt), <<<<s, e>>>>, col)
    ELSE AddParagraph(txt)

\* lines 38-49: one iteration of `for ev in item.get("evidence", [])`
ClauseEvidence(Claims) ==
    /\ hl_pc = "evidence"
    /\ ev_left > 0
    /\ \E ev \in Claims :
          LET idxv == GetOr(ev.chunk_index, 0 - 1)
              sv == GetOr(ev.start, 0)
              ev_end == GetOr(ev.end, 0)
              idx == idxv.v
              txt == ChunkOrEmpty(chunks[idx + 1])
              s == Clamp(sv.v, txt)
              e == Clamp(ev_end.v, txt)
          IN  IF ~IntReturns(idxv)
              THEN /\ hl_pc' = "raised"
                   /\ last_ev' = [op |-> "raised", ev |-> ev]
                   /\ UNCHANGED <<doc, ev_left>>
              ELSE IF idx < 0 \/ idx >= Len(chunks)
              THEN /\ hl_pc' = "evidence"
                   /\ last_ev' = [op |-> "skipped", ev |-> ev]
                   /\ ev_left' = ev_left - 1
                   /\ UNCHANGED doc
              ELSE IF ~IntReturns(sv) \/ ~IntReturns(ev_end)
              THEN /\ hl_pc' = "raised"
                   /\ last_ev' = [op |-> "raised", ev |-> ev]
                   /\ UNCHANGED <<doc, ev_left>>
              ELSE /\ hl_pc' = "evidence"
                   /\ doc' = Append(doc, Paragraph("chunk", item.no, idx,
                                        EvidenceParagraph(txt, s, e, item.color)))
                   /\ last_ev' = [op |-> "rendered", ev |-> ev, idx |-> idx,
                                  text |-> txt, s |-> s, e |-> e,
                                  handed |-> IF HighlightWhen(s, e)
                                             THEN <<<<s, e>>>> ELSE <<>>]
                   /\ ev_left' = ev_left - 1
    /\ UNCHANGED <<items_left, item, saved, splitVars, polVars, sectVars, upVars, ckVars, mgVars, hdVars>>

\* lines 64-65: _add_clause returns, the separator follows
ClauseEnd ==
    /\ hl_pc = "evidence"
    /\ ev_left = 0
    /\ doc' = Append(doc, Paragraph("sep", 0, 0 - 1, <<Run(<<"-----">>, NoHighlight)>>))
    /\ items_left' = items_left - 1
    /\ hl_pc' = IF items_left = 1 THEN "save" ELSE "items"
    /\ last_ev' = [op |-> "none"]
    /\ UNCHANGED <<ev_left, item, saved, splitVars, polVars, sectVars, upVars, ckVars, mgVars, hdVars>>

\* lines 55-61: the header, and the note of a payload without violations
BuildStart ==
    /\ hl_pc = "start"
    /\ IF items_left = 0
       THEN /\ doc' = Append(HeaderParagraphs, NoViolationsParagraph)
            /\ hl_pc' = "save"
       ELSE /\ doc' = HeaderParagraphs
            /\ hl_pc' = "items"
    /\ UNCHANGED <<items_left, ev_left, item, last_ev, saved, splitVars, polVars, sectVars, upVars, ckVars, mgVars, hdVars>>

\* line 67: doc.save(output_path)
Save ==
    /\ hl_pc = "save"
    /\ saved' = TRUE
    /\ hl_pc' = "done"
    /\ UNCHANGED <<doc, items_left, ev_left, item, last_ev, splitVars, polVars, sectVars, upVars, ckVars, mgVars, hdVars>>

InitBuildAndSave(ItemCounts) ==
    /\ hl_pc = "start"
    /\ doc = <<>>
    /\ items_left \in ItemCounts
    /\ ev_left = 0
    /\ item = [no |-> 0]
    /\ last_ev = [op |-> "none"]
    /\ saved = FALSE
    /\ SplitIdle
    /\ PolIdle
    /\ SectIdle
    /\ UpIdle
    /\ ChunkIdle
    /\ MergeIdle
    /\ HdIdle

\* Payloads of at most one violation item, with the full range of evidence
\* claims.
ClauseRisks == {39, 40, 69, 70}
ClauseExplanations == {<<"why">>}
ClauseIndexes == {Missing, IntVal(0), IntVal(1), IntVal(2), IntVal(3)}
ClauseOffsets == {Missing, StrVal, IntVal(0 - 1), IntVal(2), IntVal(100), IntVal(200)}
ClauseClaims == [chunk_index : ClauseIndexes, start : ClauseOffsets, end : ClauseOffsets]

InitClause == InitBuildAndSave({0, 1})

NextClause ==
    \/ BuildStart
    \/ AddClauseHead(ClauseRisks, ClauseExplanations)
    \/ ClauseEvidence(ClauseClaims)
    \/ ClauseEnd
    \/ Save

SpecClause == InitClause /\ [][NextClause]_vars

\* Payloads of up to MaxItems violation items, with a smaller range of
\* evidence claims.
BuildRisks == {70}
BuildExplanations == {<<>>, <<"why">>}
BuildIndexes == {Missing, IntVal(0), IntVal(3)}
BuildOffsets == {StrVal, IntVal(2), IntVal(100)}
BuildClaims == [chunk_index : BuildIndexes, start : BuildOffsets, end : BuildOffsets]

InitBuild == InitBuildAndSave(0..MaxItems)

NextBuild ==
    \/ BuildStart
    \/ AddClauseHead(BuildRisks, BuildExplanations)
    \/ ClauseEvidence(BuildClaims)
    \/ ClauseEnd
    \/ Save

SpecBuild == InitBuild /\ [][NextBuild]_vars

----------------------------------------------------------------------------
(* app/routes/policies.py *)

\* the contract's stored chunks are those of the highlighter: chunk_index i
\* is chunks[i + 1]

\* int(ev.get("chunk_index")), int(...get("start", 0)), int(...get("end", 0))
\* all return: the claim is kept
ClaimConverts(ev) ==
    /\ IntReturns(ev.chunk_index)
    /\ IntReturns(GetOr(ev.start, 0))
    /\ IntReturns(GetOr(ev.end, 0))

\* max(0, int(ev.get("span", {}).get(key, 0)))
NormalizeOffset(x) == Max(0, GetOr(x, 0).v)

\* the dict appended for a claim that converts
NormalizeClaim(ev) ==
    [chunk_index |-> ev.chunk_index.v,
     start |-> NormalizeOffset(ev.start),
     end |-> NormalizeOffset(ev.end)]

\* lines 163-175 and 267-280: the claims that convert, normalised, in order
NormalizeEvidence(evs) ==
    LET kept == SelectSeq(evs, ClaimConverts)
    IN  [i \in 1..Len(kept) |-> NormalizeClaim(kept[i])]

RECURSIVE SumRisks(_, _)
SumRisks(its, k) ==
    IF k > Len(its) THEN 0 ELSE its[k].risk + SumRisks(its, k + 1)

\* int(round(total / n)): Python rounds a half to the even neighbour
RoundDiv(total, n) ==
    LET q == total \div n
        r == total % n
    IN  IF 2 * r < n THEN q
        ELSE IF 2 * r > n THEN q + 1
        ELSE IF q % 2 = 0 THEN q ELSE q + 1

\* _overall_risk(items)
OverallRisk(its) ==
    LET violated == SelectSeq(its, LAMBDA it : it.violated)
    IN  IF violated = <<>> THEN 0
        ELSE RoundDiv(SumRisks(violated, 1), Len(violated))

\* the evidence claims an answer of the LLM may hold
LLMClaims ==
    { [chunk_index |-> IntVal(1), start |-> IntVal(0 - 3), end |-> IntVal(2)],
      [chunk_index |-> IntVal(1), start |-> IntVal(3), end |-> IntVal(2)],
      [chunk_index |-> IntVal(1), start |-> IntVal(2), end |-> IntVal(100)],
      [chunk_index |-> IntVal(1), start |-> StrVal, end |-> IntVal(2)],
      [chunk_index |-> IntVal(1), start |-> Missing, end |-> IntVal(2)],
      [chunk_index |-> Missing, start |-> IntVal(0), end |-> IntVal(2)] }

\* the answers of gemini_json
LLMDecisions ==
    [violated : BOOLEAN, risk : {0, 75},
     evidence : UNION {[1..n -> LLMClaims] : n \in 0..MaxLLMEv}]

\* the result item of one decision
ResultItem(decision) ==
    [violated |-> decision.violated, risk |-> decision.risk,
     evidence |-> NormalizeEvidence(decision.evidence)]

\* lines 120-141: the request is refused, answered at once when
\* semantic_search retrieved no chunk, or starts the loop over the playbook's
\* clauses
NoContentRetrievedLowRisk ==
    [status |-> 200, template_type |-> "unknown", overall_risk |-> 0,
     violations |-> <<>>]

\* lines 130-137: the answer when no chunk was retrieved
NoContentRetrieved ==
    [status |-> 200, template_type |-> "unknown", overall_risk |-> 100,
     violations |-> <<>>]

AutoStart ==
    /\ pol_pc = "start"
    /\ route = "auto"
    /\ \E has_id \in BOOLEAN, retrieved \in BOOLEAN, playbook \in BOOLEAN,
          n \in 0..MaxClauses :
          IF ~has_id
          THEN /\ response' = [status |-> 400]
               /\ pol_pc' = "returned"
               /\ UNCHANGED <<todo, calls, broad>>
          ELSE IF ~retrieved
          THEN /\ response' = NoContentRetrieved
               /\ calls' = calls \cup {"semantic_search"}
               /\ broad' = "empty"
               /\ pol_pc' = "returned"
               /\ UNCHANGED todo
          ELSE IF ~playbook
          THEN /\ response' = [status |-> 500]
               /\ calls' = calls \cup {"semantic_search", "_load_playbook"}
               /\ broad' = "chunks"
               /\ pol_pc' = "returned"
               /\ UNCHANGED todo
          ELSE /\ todo' = n
               /\ calls' = calls \cup {"semantic_search", "_load_playbook"}
               /\ broad' = "chunks"
               /\ pol_pc' = "loop"
               /\ UNCHANGED response
    /\ UNCHANGED <<route, results, splitVars, hlVars, sectVars, upVars, ckVars, mgVars, hdVars>>

\* lines 144-184: one playbook clause
AutoClause ==
    /\ pol_pc = "loop"
    /\ route = "auto"
    /\ todo > 0
    /\ calls' = calls \cup {"semantic_search", "gemini_json"}
    /\ \/ \E decision \in LLMDecisions :
              /\ results' = Append(results, ResultItem(decision))
              /\ todo' = todo - 1
              /\ UNCHANGED <<pol_pc, response>>
       \/ /\ response' = [status |-> 500]
          /\ pol_pc' = "returned"
          /\ UNCHANGED <<results, todo>>
    /\ UNCHANGED <<route, broad, splitVars, hlVars, sectVars, upVars, ckVars, mgVars, hdVars>>

\* lines 186-192
AutoReturn ==
    /\ pol_pc = "loop"
    /\ route = "auto"
    /\ todo = 0
    /\ response' = [status |-> 200, template_type |-> "known",
                    overall_risk |-> OverallRisk(results), violations |-> results]
    /\ pol_pc' = "returned"
    /\ UNCHANGED <<route, broad, results, todo, calls, splitVars, hlVars, sectVars, upVars, ckVars, mgVars, hdVars>>

\* lines 203-211: the request is refused or starts the loop over its policies
CheckStart ==
    /\ pol_pc = "start"
    /\ route = "check"
    /\ \E has_id \in BOOLEAN, n \in 0..MaxClauses :
          IF ~has_id \/ n = 0
          THEN /\ response' = [status |-> 400]
               /\ pol_pc' = "returned"
               /\ UNCHANGED todo
          ELSE /\ todo' = n
               /\ pol_pc' = "loop"
               /\ UNCHANGED response
    /\ UNCHANGED <<route, broad, results, calls, splitVars, hlVars, sectVars, upVars, ckVars, mgVars, hdVars>>

\* lines 212-289: one policy
CheckPolicy ==
    /\ pol_pc = "loop"
    /\ route = "check"
    /\ todo > 0
    /\ \/ /\ results' = Append(results, [violated |-> FALSE, risk |-> 0, evidence |-> <<>>])
          /\ todo' = todo - 1
          /\ UNCHANGED <<pol_pc, response, calls>>
       \/ \E decision \in LLMDecisions :
              /\ results' = Append(results, ResultItem(decision))
              /\ todo' = todo - 1
              /\ calls' = calls \cup {"semantic_search", "gemini_json"}
              /\ UNCHANGED <<pol_pc, response>>
       \/ /\ response' = [status |-> 500]
          /\ calls' = calls \cup {"semantic_search", "gemini_json"}
          /\ pol_pc' = "returned"
          /\ UNCHANGED <<results, todo>>
    /\ UNCHANGED <<route, broad, splitVars, hlVars, sectVars, upVars, ckVars, mgVars, hdVars>>

\* lines 291-297
CheckReturn ==
    /\ pol_pc = "loop"
    /\ route = "check"
    /\ todo = 0
    /\ response' = [status |-> 200, template_type |-> "none",
                    overall_risk |-> OverallRisk(results), violations |-> results]
    /\ pol_pc' = "returned"
    /\ UNCHANGED <<route, broad, results, todo, calls, splitVars, hlVars, sectVars, upVars, ckVars, mgVars, hdVars>>

InitPolicies ==
    /\ pol_pc = "start"
    /\ route \in {"auto", "check"}
    /\ results = <<>>
    /\ todo = 0
    /\ response = [status |-> 0]
    /\ calls = {}
    /\ broad = "none"
    /\ SplitIdle
    /\ HlIdle
    /\ SectIdle
    /\ UpIdle
    /\ ChunkIdle
    /\ MergeIdle
    /\ HdIdle

NextPolicies ==
    \/ AutoStart
    \/ AutoClause
    \/ AutoReturn
    \/ CheckStart
    \/ CheckPolicy
    \/ CheckReturn

SpecPolicies == InitPolicies /\ [][NextPolicies]_vars

----------------------------------------------------------------------------
(* Claims about the policy routes *)

\* C2: every evidence span in the result of auto_violation or
\* check_policy_violation lies within the text of the chunk it cites:
\* 0 <= start <= end <= len(text), whatever the LLM returned.
C2_SpansWithinChunkText ==
    (pol_pc = "returned" /\ response.status = 200) =>
        \A i \in 1..Len(response.violations) :
            \A k \in 1..Len(response.violations[i].evidence) :
                LET ev == response.violations[i].evidence[k]
                IN  (0 <= ev.chunk_index /\ ev.chunk_index < Len(chunks)) =>
                        /\ 0 <= ev.start
                        /\ ev.start <= ev.end
                        /\ ev.end <= Len(ChunkOrEmpty(chunks[ev.chunk_index + 1]))

----------------------------------------------------------------------------
(* Claims about ComplianceHighlighter *)

\* the last loop iteration of _add_clause added the chunk's paragraph
EvidenceRendered == last_ev.op = "rendered"

\* the integer offsets of the claim of the last iteration
RawStart == GetOr(last_ev.ev.start, 0).v
RawEnd == GetOr(last_ev.ev.end, 0).v

\* n cut to the range 0..len
Within(n, len) == IF n < 0 THEN 0 ELSE IF n > len THEN len ELSE n

\* the chunk paragraphs of the current item
ItemChunkParagraphs ==
    {i \in 1..Len(doc) : doc[i].kind = "chunk" /\ doc[i].item = item.no}

\* C1: in _add_clause every claim with integer offsets is clamped to
\* start' = max(0, min(start, len(text))), end' = max(0, min(end, len(text))),
\* and every span handed to split_paragraph_by_spans satisfies
\* 0 <= start' <= end' <= len(text).
C1_ClampedWithinText ==
    EvidenceRendered =>
        /\ last_ev.s = Within(RawStart, Len(last_ev.text))
        /\ last_ev.e = Within(RawEnd, Len(last_ev.text))
        /\ \A i \in 1..Len(last_ev.handed) :
               /\ 0 <= last_ev.handed[i][1]
               /\ last_ev.handed[i][1] <= last_ev.handed[i][2]
               /\ last_ev.handed[i][2] <= Len(last_ev.text)

\* C1 witness: a claim that starts below 0 and ends beyond the text was
\* clamped and handed to split_paragraph_by_spans.
C1_Witness ==
    /\ EvidenceRendered
    /\ RawStart < 0
    /\ RawEnd > Len(last_ev.text)
    /\ last_ev.handed = <<<<0, Len(last_ev.text)>>>>

\* the claim {start: 100, end: 200} on the chunk "The Term shall be ..."
TermClaimRendered ==
    /\ EvidenceRendered
    /\ last_ev.text = TermText
    /\ last_ev.ev.start = IntVal(100)
    /\ last_ev.ev.end = IntVal(200)

\* the paragraph added last shows txt with no highlighted run
LastParagraphPlain(txt) ==
    /\ doc # <<>>
    /\ doc[Len(doc)].kind = "chunk"
    /\ ParaText(doc[Len(doc)].runs) = txt
    /\ \A k \in 1..Len(doc[Len(doc)].runs) :
           doc[Len(doc)].runs[k].highlight = NoHighlight

\* C7 as stated: the claim {100, 200} on the Term chunk clamps to (63, 63)
\* and is dropped.
C7_TermClaimClampsTo63 ==
    TermClaimRendered =>
        /\ last_ev.s = 63 /\ last_ev.e = 63
        /\ last_ev.handed = <<>>
        /\ LastParagraphPlain(TermText)

\* C7 amended: the claim {100, 200} on the Term chunk, whose text has 62
\* characters, clamps to (62, 62) and is dropped: nothing is handed to
\* split_paragraph_by_spans and the paragraph shows the text unchanged with
\* no highlighted run.
C7_TermClaimClampsTo62 ==
    TermClaimRendered =>
        /\ last_ev.s = 62 /\ last_ev.e = 62
        /\ last_ev.handed = <<>>
        /\ LastParagraphPlain(TermText)

\* C7 witness: the claim {100, 200} on the Term chunk was processed.
C7_Witness == TermClaimRendered /\ hl_pc = "evidence"

\* the tier of a risk score
Tier(risk) ==
    CASE risk >= 70 -> "RED"
      [] risk >= 40 /\ risk < 70 -> "YELLOW"
      [] OTHER -> "BRIGHT_GREEN"

\* every highlighted run of the current item's chunk paragraphs has color t
ItemHighlightsAre(t) ==
    \A i \in ItemChunkParagraphs :
        \A k \in 1..Len(doc[i].runs) :
            doc[i].runs[k].highlight # NoHighlight => doc[i].runs[k].highlight = t

\* C8 as stated: the tier of an item's highlights is a function of its risk
\* score only.
C8_TierByRiskOnly ==
    ItemChunkParagraphs # {} => ItemHighlightsAre(Tier(item.risk))

\* C8 amended: the tier of an item's highlights is that of its risk score
\* when the item is violated, and low (green) when it is not, whatever its
\* risk score.
C8_TierByRiskWhenViolated ==
    ItemChunkParagraphs # {} =>
        ItemHighlightsAre(IF item.violated THEN Tier(item.risk) ELSE "BRIGHT_GREEN")

\* C8 witness: a violated item of risk 70 has a highlighted run, in red.
C8_Witness ==
    /\ item.no = 1
    /\ item.violated
    /\ item.risk = 70
    /\ \E i \in ItemChunkParagraphs :
           \E k \in 1..Len(doc[i].runs) : doc[i].runs[k].highlight = "RED"

\* the paragraph holds a highlighted run: its claim's span survived
HasHighlight(p) == \E k \in 1..Len(p.runs) : p.runs[k].highlight # NoHighlight

\* C9: the surviving claims of one item that cite the same chunk_index are
\* rendered together: the chunk's text appears highlighted in one paragraph
\* of the item, not once per claim.
C9_OneParagraphPerChunk ==
    \A i \in ItemChunkParagraphs, j \in ItemChunkParagraphs :
        (/\ HasHighlight(doc[i])
         /\ HasHighlight(doc[j])
         /\ doc[i].chunk_index = doc[j].chunk_index) => i = j

\* C6: a malformed evidence claim never fails the batch: build_and_save does
\* not raise.
C6_MalformedClaimNeverFailsBatch == hl_pc # "raised"

----------------------------------------------------------------------------
(* Claims about split_paragraph_by_spans *)

\* the call has run its sort-and-merge step
SplitMerged == sp_pc = "done" /\ text # <<>>

\* the call has rebuilt the paragraph
SplitRendered == sp_pc = "done" /\ text # <<>>

\* the text positions (offsets >= 0) that the spans of sp cover
Covered(sp) ==
    {p \in 0..(MaxLen + 1) : \E i \in 1..Len(sp) : sp[i][1] <= p /\ p < sp[i][2]}

\* C3: for a non-empty paragraph text and any list of spans, the runs of the
\* rebuilt paragraph, concatenated in order, are the original text.
C3_RunsReproduceText == SplitRendered => ParaText(para) = text

\* C3 witness: two separate highlighted runs with plain text between them.
C3_Witness ==
    /\ SplitRendered
    /\ Len(merged) = 2
    /\ Len(para) >= 3
    /\ para[1].highlight = color /\ para[1].text # <<>>
    /\ para[2].highlight = NoHighlight /\ para[2].text # <<>>
    /\ para[3].highlight = color /\ para[3].text # <<>>

\* C4: the merged spans are sorted by start, consecutive spans satisfy
\* prev.end < next.start (overlapping and adjacent spans were merged), and
\* they cover the same text positions as the argument spans.
C4_MergedSortedDisjointSameCover ==
    SplitMerged =>
        /\ \A i \in 1..Len(merged), j \in 1..Len(merged) :
               i < j => merged[i][1] <= merged[j][1]
        /\ \A i \in 1..(Len(merged) - 1) : merged[i][2] < merged[i + 1][1]
        /\ Covered(merged) = Covered(spans)

\* C4 witness: two argument spans that are adjacent, given in descending
\* order, were merged into one.
C4_Witness ==
    /\ SplitMerged
    /\ Len(spans) = 2
    /\ spans[2][1] < spans[2][2]
    /\ spans[2][2] = spans[1][1]
    /\ spans[1][1] < spans[1][2]
    /\ merged = <<<<spans[2][1], spans[1][2]>>>>

\* every offset of sp is >= 0 and every span has start < end
WellFormedSpans(sp) ==
    \A i \in 1..Len(sp) : 0 <= sp[i][1] /\ sp[i][1] < sp[i][2]

\* C5 as stated, for well-formed spans: the sort-and-merge step run on its
\* own output gives that output, and a list that is sorted and does not
\* overlap (prev.end <= next.start) comes out unchanged.
C5_MergeIdempotentAsStated ==
    (SplitMerged /\ WellFormedSpans(spans)) =>
        /\ SortMerge(merged) = merged
        /\ (\A i \in 1..(Len(spans) - 1) : spans[i][2] <= spans[i + 1][1])
               => merged = spans

\* C5 amended: for spans with offsets >= 0 the sort-and-merge step run on its
\* own output gives that output, and a list of non-empty spans in which each
\* span starts strictly after the previous one ends comes out unchanged.
C5_MergeIdempotent ==
    SplitMerged =>
        /\ (\A i \in 1..Len(spans) : spans[i][1] >= 0 /\ spans[i][2] >= 0)
               => SortMerge(merged) = merged
        /\ (/\ WellFormedSpans(spans)
            /\ \A i \in 1..(Len(spans) - 1) : spans[i][2] < spans[i + 1][1])
               => merged = spans

\* C5 witness: a sorted list of two spans with a gap between them was merged.
C5_Witness ==
    /\ SplitMerged
    /\ Len(spans) = 2
    /\ WellFormedSpans(spans)
    /\ spans[1][2] < spans[2][1]
    /\ merged = spans

----------------------------------------------------------------------------
(* app/services/sectioner.py *)

\* A line is [no, pno, kind, bold, text, len, term, tlen, rest, rlen]: its place in
\* the input (1-based), its page, what the patterns of the module find in its
\* text, whether its first span is bold, its stripped text and that text's
\* length, and for a line that RE_DEF_NUM / RE_DEF matches the title
\* "<num> <term>" the match gives, that title's length, and what follows the
\* match with its length.
\*   blank        nothing but white space
\*   body         matches no header pattern
\*   caps         is_all_caps
\*   section      RE_SECTION or RE_LETTERED, at most 160 characters
\*   longsection  RE_SECTION or RE_LETTERED, more than 160 characters
\*   def          RE_DEF_NUM / RE_DEF, nothing after the match
\*   defrest      RE_DEF_NUM / RE_DEF, text after the match
\*   defglued     as defrest, and RE_DEF_SPLIT_INLINE / RE_INLINE_SPLIT finds
\*                a second numbered definition further on
LineKinds == {"blank", "body", "caps", "section", "longsection",
              "def", "defrest", "defglued"}

\* max_title_len: int = 160
max_title_len == 160

\* A string of the output is [of, part, line, len, cut, marker]: the string
\* it was made of, which part of line `line` that is, its length, whether
\* characters were cut off, and whether it ends with the marker "…".
Str(of, part, line, len) ==
    [of |-> of, part |-> part, line |-> line, len |-> len,
     cut |-> FALSE, marker |-> FALSE]

\* the literal "Untitled"
Untitled == Str("Untitled", "untitled", 0, 8)

\* s[:limit].rstrip(" ,;:.-") + "…" (nothing for rstrip to remove)
CutWithMarker(s, limit) ==
    [s EXCEPT !.len = Min(s.len, limit) + 1,
              !.cut = s.cut \/ s.len - (IF s.marker THEN 1 ELSE 0) > limit,
              !.marker = TRUE]

\* title[:max_title_len]
CutTo(s, limit) ==
    [s EXCEPT !.len = Min(s.len, limit),
              !.cut = s.cut \/ s.len > limit,
              !.marker = s.marker /\ s.len <= limit]

DefMatches(ln) == ln.kind \in {"def", "defrest", "defglued"}

\* rest = seg[m.end():].lstrip() is not empty
HasRest(ln) == ln.kind \in {"defrest", "defglued"}

\* RE_DEF_NUM.search(ln) and (" 1." in ln or RE_DEF_SPLIT_INLINE.search(ln))
IsGlued(ln) == ln.kind = "defglued"

\* is_all_caps(s) or looks_like_header(s): a definition header looks like a
\* header too
HeaderLike(ln) == ln.kind \in {"caps", "section", "longsection", "def", "defrest", "defglued"}

\* len(ln_stripped) <= 160
AtMost160(ln) == ln.len <= 160

\* the title a header line gives: f"{num} {term}" for a definition header,
\* " ".join(ln_stripped.split()) for another header
TitleOf(ln) ==
    IF DefMatches(ln) THEN Str(ln.term, "term", ln.no, ln.tlen)
    ELSE Str(ln.text, "line", ln.no, ln.len)

\* what follows the match of a definition header
RestOf(ln) == Str(ln.rest, "rest", ln.no, ln.rlen)

\* a line appended to the body as it is
BodyOf(ln) ==
    IF ln.kind = "blank" THEN Str("", "blank", ln.no, 0)
    ELSE Str(ln.text, "line", ln.no, ln.len)

\* Offsets within a line: 0 is its start, LineEnd its end.
LineEnd == 1

\* [m.start() for m in RE_DEF_NUM.finditer(ln)]: the pattern is anchored with
\* ^, so finditer finds it at offset 0 or nowhere
DefMatchStarts(ln) == IF DefMatches(ln) THEN <<0>> ELSE <<>>

\* lines 126-129 and 273-276: the segments between consecutive cut points
\* that are not empty; the segment from 0 to LineEnd is the whole line
RECURSIVE Segments(_, _, _)
Segments(ln, idxs, k) ==
    IF k >= Len(idxs) THEN <<>>
    ELSE (IF idxs[k] < idxs[k + 1] THEN <<ln>> ELSE <<>>) \o Segments(ln, idxs, k + 1)

\* lines 120-129: parts of section_text_with_pages
PartsPages(ln) ==
    LET found == DefMatchStarts(ln)
        idxs == IF found # <<>> /\ found[1] # 0 THEN <<0>> \o found ELSE found
    IN  Segments(ln, Append(idxs, LineEnd), 1)

\* lines 267-277: parts of section_text_bold_aware; `idxs != 0` compares a
\* list with a number and is always true
PartsBold(ln) ==
    LET found == DefMatchStarts(ln)
        idxs == IF found # <<>> THEN <<0>> \o found ELSE found
    IN  Segments(ln, Append(idxs, LineEnd), 1)

\* the body's lines that are not blank
NonBlank(body) == SelectSeq(body, LAMBDA b : b.part # "blank")

first_sentence_or_nothing(text_lines, limit) ==
    IF text_lines = <<>> THEN Str("", "untitled", 0, 0)
    ELSE LET s == [text_lines[1] EXCEPT !.part = "first_sentence"]
         IN  IF s.len > limit THEN CutWithMarker(s, limit) ELSE s

\* lines 74-84: first_sentence(text, limit) of a body whose lines that are
\* not blank are text_lines; a line is one sentence
first_sentence(text_lines, limit) ==
    IF text_lines = <<>> THEN Untitled
    ELSE LET s == [text_lines[1] EXCEPT !.part = "first_sentence"]
         IN  IF s.len > limit THEN CutWithMarker(s, limit) ELSE s

\* len("\n".join(body)): the lines and the line ends between them
RECURSIVE JoinedLen(_, _)
JoinedLen(body, k) ==
    IF k > Len(body) THEN 0
    ELSE body[k].len + (IF k < Len(body) THEN 1 ELSE 0) + JoinedLen(body, k + 1)

\* line 257: body[:max_title_len].rstrip(" ,;:.-") + "…" if body else
\* "Untitled"
BodyStart(body, limit) ==
    IF body = <<>> THEN Untitled
    ELSE CutWithMarker([body[1] EXCEPT !.part = "body_start",
                                       !.len = JoinedLen(body, 1)], limit)

FlushPageStartNone(min_page) == min_page

\* page_start = cur_min_page or 1
FlushPageStart(min_page) == IF min_page = NoPage THEN 1 ELSE min_page

\* page_end = cur_max_page or page_start
FlushPageEnd(max_page, page_start) == IF max_page = NoPage THEN page_start ELSE max_page

\* the accumulator of a section builder
Acc(secs, title, body, min_page, max_page) ==
    [sections |-> secs, cur_title |-> title, cur_body |-> body,
     cur_min_page |-> min_page, cur_max_page |-> max_page]

FlushPagesAlways(a) ==
    Acc(Append(a.sections,
               [title |-> Untitled, text |-> <<>>, page_start |-> 1, page_end |-> 1]),
        NoTitle, <<>>, NoPage, NoPage)

\* lines 98-112: flush() of section_text_with_pages
FlushPages(a) ==
    IF a.cur_body = <<>> /\ a.cur_title = NoTitle THEN a
    ELSE LET text_lines == NonBlank(a.cur_body)
             title == IF a.cur_title # NoTitle THEN a.cur_title
                      ELSE first_sentence(text_lines, max_title_len)
             page_start == FlushPageStart(a.cur_min_page)
             page_end == FlushPageEnd(a.cur_max_page, page_start)
         IN  Acc(Append(a.sections,
                        [title |-> title, text |-> text_lines,
                         page_start |-> page_start, page_end |-> page_end]),
                 NoTitle, <<>>, NoPage, NoPage)

\* lines 252-259: flush() of section_text_bold_aware
FlushBold(a) ==
    IF a.cur_title = NoTitle /\ a.cur_body = <<>> THEN a
    ELSE LET title == IF a.cur_title # NoTitle THEN a.cur_title
                      ELSE BodyStart(a.cur_body, max_title_len)
         IN  Acc(Append(a.sections,
                        [title |-> title, text |-> a.cur_body,
                         page_start |-> a.cur_min_page, page_end |-> a.cur_max_page]),
                 NoTitle, <<>>, NoPage, NoPage)

\* cur_min_page = pno if cur_min_page is None else min(cur_min_page, pno)
TrackMin(cur, pno) == IF cur = NoPage THEN pno ELSE Min(cur, pno)

TrackMaxFirstOnly(cur, pno) == IF cur = NoPage THEN pno ELSE cur

\* cur_max_page = pno if cur_max_page is None else max(cur_max_page, pno)
TrackMax(cur, pno) == IF cur = NoPage THEN pno ELSE Max(cur, pno)

\* if cur_title is not None or cur_body: flush()
FlushIfOpenPages(a) ==
    IF a.cur_title # NoTitle \/ a.cur_body # <<>> THEN FlushPages(a) ELSE a

FlushIfOpenBoldNever(a) == a

\* if cur_title is not None or cur_body: flush()
FlushIfOpenBold(a) ==
    IF a.cur_title # NoTitle \/ a.cur_body # <<>> THEN FlushBold(a) ELSE a

OpenDefinitionPagesNoRest(a, ln) ==
    [FlushIfOpenPages(a) EXCEPT !.cur_title = TitleOf(ln)]

\* lines 139-147 and 159-165: a definition header opens a section; the page
\* range is left alone
OpenDefinitionPages(a, ln) ==
    LET b == FlushIfOpenPages(a)
    IN  [b EXCEPT !.cur_title = TitleOf(ln),
                  !.cur_body = IF HasRest(ln) THEN Append(b.cur_body, RestOf(ln))
                               ELSE b.cur_body]

RECURSIVE OpenPartsPages(_, _, _)
OpenPartsPages(a, parts, k) ==
    IF k > Len(parts) THEN a
    ELSE OpenPartsPages(IF DefMatches(parts[k])
                        THEN OpenDefinitionPages(a, parts[k])
                        ELSE [a EXCEPT !.cur_body = Append(a.cur_body, BodyOf(parts[k]))],
                        parts, k + 1)

\* lines 169-174: the next line that is not blank looks like a header
RECURSIVE NextIsHeader(_, _)
NextIsHeader(lns, j) ==
    IF j > Len(lns) THEN FALSE
    ELSE IF lns[j].kind = "blank" THEN NextIsHeader(lns, j + 1)
    ELSE HeaderLike(lns[j])

\* line 175: the line opens a section as a header of the third branch
IsHeaderPages(lns, k) ==
    /\ lns[k].kind # "blank"
    /\ HeaderLike(lns[k])
    /\ (AtMost160(lns[k]) \/ ~NextIsHeader(lns, k + 1))

\* lines 116-187: one iteration of the loop of section_text_with_pages over
\* line k (1-based)
StepPages(a, lns, k) ==
    LET ln == lns[k]
    IN  IF IsGlued(ln) THEN OpenPartsPages(a, PartsPages(ln), 1)
        ELSE IF DefMatches(ln) THEN OpenDefinitionPages(a, ln)
        ELSE IF IsHeaderPages(lns, k)
        THEN LET b == FlushIfOpenPages(a)
             IN  [b EXCEPT !.cur_title = TitleOf(ln),
                           !.cur_min_page = TrackMin(b.cur_min_page, ln.pno),
                           !.cur_max_page = TrackMax(b.cur_max_page, ln.pno)]
        ELSE [a EXCEPT !.cur_body = Append(a.cur_body, BodyOf(ln)),
                       !.cur_min_page = TrackMin(a.cur_min_page, ln.pno),
                       !.cur_max_page = TrackMax(a.cur_max_page, ln.pno)]

\* lines 228-243: is_title(line, first_bold)
IsTitle(ln) == ln.bold /\ ln.kind \in {"def", "defrest", "defglued", "section", "longsection"}

\* lines 279-291: one segment of a line of section_text_bold_aware
StepSegmentBold(a, seg) ==
    IF IsTitle(seg)
    THEN LET b == FlushIfOpenBold(a)
         IN  [b EXCEPT !.cur_title = CutTo(TitleOf(seg), max_title_len),
                       !.cur_min_page = seg.pno,
                       !.cur_max_page = seg.pno,
                       !.cur_body = IF DefMatches(seg) /\ HasRest(seg)
                                    THEN Append(b.cur_body, RestOf(seg))
                                    ELSE b.cur_body]
    ELSE [a EXCEPT !.cur_body = Append(a.cur_body, BodyOf(seg)),
                   !.cur_min_page = TrackMin(a.cur_min_page, seg.pno),
                   !.cur_max_page = TrackMax(a.cur_max_page, seg.pno)]

RECURSIVE StepSegmentsBold(_, _, _)
StepSegmentsBold(a, segs, k) ==
    IF k > Len(segs) THEN a
    ELSE StepSegmentsBold(StepSegmentBold(a, segs[k]), segs, k + 1)

\* lines 263-292: one iteration of the loop of section_text_bold_aware
StepBold(a, lns, k) ==
    StepSegmentsBold(a, IF IsGlued(lns[k]) THEN PartsBold(lns[k]) ELSE <<lns[k]>>, 1)

\* lines 295-303: a title of more than 140 characters with no body becomes
\* the body, under a title cut to 120 characters and the marker
PostFix(secs) ==
    [k \in 1..Len(secs) |->
        IF secs[k].text = <<>> /\ secs[k].title.len > 140
        THEN [secs[k] EXCEPT !.title = CutWithMarker(secs[k].title, 120),
                             !.text = <<[secs[k].title EXCEPT !.part = "title"]>>]
        ELSE secs[k]]

CurAcc == Acc(sections, cur_title, cur_body, cur_min_page, cur_max_page)

SetAcc(a) ==
    /\ sections' = a.sections
    /\ cur_title' = a.cur_title
    /\ cur_body' = a.cur_body
    /\ cur_min_page' = a.cur_min_page
    /\ cur_max_page' = a.cur_max_page

\* one line of section_text_with_pages
LinePages ==
    /\ sect_pc = "loop"
    /\ mode = "pages"
    /\ line_i < Len(lines)
    /\ SetAcc(StepPages(CurAcc, lines, line_i + 1))
    /\ line_i' = line_i + 1
    /\ UNCHANGED <<sect_pc, mode, lines, splitVars, hlVars, polVars, upVars, ckVars, mgVars, hdVars>>

DropEmptyBodies(secs) == SelectSeq(secs, LAMBDA s : s.text # <<>>)

\* line 191: [s for s in sections if s["title"] or s["text"]]
DropEmpty(secs) == SelectSeq(secs, LAMBDA s : s.title.len > 0 \/ s.text # <<>>)

\* lines 189-191: the last flush, and the sections that are not empty
ReturnPages ==
    /\ sect_pc = "loop"
    /\ mode = "pages"
    /\ line_i = Len(lines)
    /\ LET a == FlushPages(CurAcc)
       IN  SetAcc([a EXCEPT !.sections = DropEmpty(a.sections)])
    /\ sect_pc' = "done"
    /\ UNCHANGED <<mode, lines, line_i, splitVars, hlVars, polVars, upVars, ckVars, mgVars, hdVars>>

\* one line of section_text_bold_aware
LineBold ==
    /\ sect_pc = "loop"
    /\ mode = "bold"
    /\ line_i < Len(lines)
    /\ SetAcc(StepBold(CurAcc, lines, line_i + 1))
    /\ line_i' = line_i + 1
    /\ UNCHANGED <<sect_pc, mode, lines, splitVars, hlVars, polVars, upVars, ckVars, mgVars, hdVars>>

\* lines 294-303: the last flush and the post-fix
ReturnBold ==
    /\ sect_pc = "loop"
    /\ mode = "bold"
    /\ line_i = Len(lines)
    /\ LET a == FlushBold(CurAcc)
       IN  SetAcc([a EXCEPT !.sections = PostFix(a.sections)])
    /\ sect_pc' = "done"
    /\ UNCHANGED <<mode, lines, line_i, splitVars, hlVars, polVars, upVars, ckVars, mgVars, hdVars>>

\* the page numbers of the lines never decrease
PagesNonDecreasing(lns) ==
    \A k \in 1..(Len(lns) - 1) : lns[k].pno <= lns[k + 1].pno

\* a line of the input, not yet numbered
Line(pno, kind, bold, txt, len, term, tlen, rest, rlen) ==
    [no |-> 0, pno |-> pno, kind |-> kind, bold |-> bold, text |-> txt,
     len |-> len, term |-> term, tlen |-> tlen, rest |-> rest, rlen |-> rlen]

\* a line of kind `kind` and length len that is not a definition header
TextLine(pno, kind, bold, txt, len) == Line(pno, kind, bold, txt, len, "", 0, "", 0)

\* a definition header without quotes: the term runs to the end of the line
\* and nothing follows the match
DefLine(pno, bold, len) ==
    Line(pno, "def", bold, "1.1 Term", len, "1.1 Term", len, "", 0)

\* a definition header with a quoted term of length tlen - 4 and the text
\* "means" (defrest) or "means 1.2 'Party'" (defglued) after it
DefRestLine(pno, kind, bold, tlen) ==
    IF kind = "defrest"
    THEN Line(pno, kind, bold, "1.1 'Term' means", tlen + 8, "1.1 Term", tlen, "means", 5)
    ELSE Line(pno, kind, bold, "1.1 'Term' means 1.2 'Party'", tlen + 20, "1.1 Term", tlen,
              "means 1.2 'Party'", 17)

\* one line of each kind, of ordinary length
PlainLine(pno, kind, bold) ==
    CASE kind = "blank" -> TextLine(pno, kind, bold, "", 0)
      [] kind = "body" -> TextLine(pno, kind, bold, "body text", 9)
      [] kind = "caps" -> TextLine(pno, kind, bold, "CAPS HEADER", 11)
      [] kind = "section" -> TextLine(pno, kind, bold, "Section 1", 9)
      [] kind = "longsection" -> TextLine(pno, kind, bold, "Section 1 long", 161)
      [] kind = "def" -> DefLine(pno, bold, 8)
      [] OTHER -> DefRestLine(pno, kind, bold, 8)

\* lines 86-90 and 206-226: the input lines in order, each with its place
Numbered(lns) == [k \in 1..Len(lns) |-> [lns[k] EXCEPT !.no = k]]

\* the inputs of section_text_with_pages: no typography
PageLines == {PlainLine(pno, kind, FALSE) : pno \in 1..MaxPage, kind \in LineKinds}

\* the inputs of section_text_bold_aware: extract_lines_with_style drops
\* blank lines
BoldLines ==
    {PlainLine(pno, kind, bold) :
        pno \in 1..MaxPage, kind \in LineKinds \ {"blank"}, bold \in BOOLEAN}

\* a call of one of the section builders on up to n lines drawn from
\* pages_lines or bold_lines
InitSectionBuilder(pages_lines, bold_lines, n) ==
    /\ sect_pc = "loop"
    /\ mode \in {"pages", "bold"}
    /\ \E m \in 0..n :
           \E lns \in [1..m -> IF mode = "pages" THEN pages_lines ELSE bold_lines] :
               lines = Numbered(lns)
    /\ PagesNonDecreasing(lines)
    /\ line_i = 0
    /\ sections = <<>>
    /\ cur_title = NoTitle
    /\ cur_body = <<>>
    /\ cur_min_page = NoPage
    /\ cur_max_page = NoPage
    /\ SplitIdle
    /\ HlIdle
    /\ PolIdle
    /\ ChunkIdle
    /\ MergeIdle
    /\ HdIdle

InitSections == InitSectionBuilder(PageLines, BoldLines, MaxLines) /\ UpIdle

NextSections == LinePages \/ ReturnPages \/ LineBold \/ ReturnBold

SpecSections == InitSections /\ [][NextSections]_vars

\* Lines of many lengths, all on page 1, for the titles the builders derive.
\* The first three are the lines
\*   SECTION 1. DEFINITIONS
\*   1.1 "Agreement" means this document.
\*   1.2 "Party" means either signatory.
\* as is_all_caps and RE_DEF_NUM read them.
ExampleLines ==
    << TextLine(1, "caps", FALSE, "SECTION 1. DEFINITIONS", 22),
       Line(1, "defrest", FALSE, "1.1 \"Agreement\" means this document.", 36,
            "1.1 Agreement", 13, "means this document.", 20),
       Line(1, "defrest", FALSE, "1.2 \"Party\" means either signatory.", 35,
            "1.2 Party", 9, "means either signatory.", 23) >>

TitlePageLines ==
    {ExampleLines[k] : k \in 1..3}
    \cup {PlainLine(1, "blank", FALSE)}
    \cup {TextLine(1, "body", FALSE, "body text", n) : n \in {1, 160, 161}}
    \cup {TextLine(1, "caps", FALSE, "CAPS HEADER", 160)}
    \cup {TextLine(1, "section", FALSE, "Section 1", 141)}
    \cup {TextLine(1, "longsection", FALSE, "Section 1 long", n) : n \in {161, 201}}
    \cup {DefLine(1, FALSE, n) : n \in {8, 161, 201}}
    \cup {DefRestLine(1, "defrest", FALSE, 161)}

TitleBoldLines ==
    {TextLine(1, "body", bold, "body text", n) : bold \in BOOLEAN, n \in {1, 161}}
    \cup {TextLine(1, "section", bold, "Section 1", n) : bold \in BOOLEAN, n \in {9, 141}}
    \cup {TextLine(1, "longsection", TRUE, "Section 1 long", n) : n \in {161, 201}}
    \cup {DefLine(1, TRUE, n) : n \in {8, 141, 161}}
    \cup {DefRestLine(1, kind, TRUE, n) : kind \in {"defrest", "defglued"}, n \in {8, 161}}

InitTitles == InitSectionBuilder(TitlePageLines, TitleBoldLines, MaxTitleLines) /\ UpIdle

SpecTitles == InitTitles /\ [][NextSections]_vars

----------------------------------------------------------------------------
(* Claims about the section builders *)

\* the largest page number of the input
LargestPage ==
    IF lines = <<>> THEN 0
    ELSE CHOOSE p \in 1..MaxPage :
             /\ \E k \in 1..Len(lines) : lines[k].pno = p
             /\ \A k \in 1..Len(lines) : lines[k].pno <= p

\* C10: for 1-based, non-decreasing page numbers every Section emitted by
\* section_text_with_pages and section_text_bold_aware satisfies
\* 1 <= page_start <= page_end <= the largest page number of the input.
C10_PageRangeWithinInput ==
    \A k \in 1..Len(sections) :
        /\ 1 <= sections[k].page_start
        /\ sections[k].page_start <= sections[k].page_end
        /\ sections[k].page_end <= LargestPage

\* C10 witness: section_text_with_pages returned a section that spans two
\* pages after a section opened by a definition header.
C10_Witness ==
    /\ sect_pc = "done"
    /\ mode = "pages"
    /\ Len(sections) = 2
    /\ sections[1].title.of = "1.1 Term"
    /\ sections[2].page_start < sections[2].page_end

\* C11: every Section of section_text_with_pages and section_text_bold_aware
\* has a title that is not empty, whatever the input: a section without an
\* explicit header takes its title from its body, or is "Untitled".
C11_TitleNeverEmpty ==
    \A k \in 1..Len(sections) :
        /\ sections[k].title # NoTitle
        /\ sections[k].title.len > 0

\* C11 witness: section_text_with_pages returned a leading section made of
\* blank lines only, whose body gives no title, before a section with a
\* header.
C11_Witness ==
    /\ sect_pc = "done"
    /\ mode = "pages"
    /\ Len(sections) = 2
    /\ sections[1].text = <<>>
    /\ sections[1].title = Untitled

\* the Section with an explicit title
Section(title, body, page_start, page_end) ==
    [title |-> title, text |-> body, page_start |-> page_start, page_end |-> page_end]

\* C12: for the three lines SECTION 1. DEFINITIONS / 1.1 "Agreement" means
\* this document. / 1.2 "Party" means either signatory. on page 1,
\* section_text_with_pages returns exactly three Sections in this order:
\* (SECTION 1. DEFINITIONS, no body, pages 1-1), (1.1 Agreement, "means this
\* document.", pages 1-1), (1.2 Party, "means either signatory.", pages 1-1).
C12_ThreeSectionsOfTheExample ==
    (sect_pc = "done" /\ mode = "pages" /\ lines = Numbered(ExampleLines)) =>
        sections =
            << Section(Str("SECTION 1. DEFINITIONS", "line", 1, 22), <<>>, 1, 1),
               Section(Str("1.1 Agreement", "term", 2, 13),
                       <<Str("means this document.", "rest", 2, 20)>>, 1, 1),
               Section(Str("1.2 Party", "term", 3, 9),
                       <<Str("means either signatory.", "rest", 3, 23)>>, 1, 1) >>

\* C12 witness: section_text_with_pages returned for the three lines.
C12_Witness ==
    /\ sect_pc = "done"
    /\ mode = "pages"
    /\ lines = Numbered(ExampleLines)
    /\ Len(sections) = 3

\* C13: section_text_with_pages stops nowhere but at its return, and for an
\* input without lines (no pages, or pages without lines) it returns no
\* section.
C13_EmptyInputNoSections ==
    mode = "pages" =>
        /\ sect_pc \in {"loop", "done"}
        /\ (sect_pc = "loop" => ENABLED (LinePages \/ ReturnPages))
        /\ (sect_pc = "done" /\ lines = <<>>) => sections = <<>>

\* C13 witness: section_text_with_pages returned for an input without lines.
C13_Witness ==
    /\ sect_pc = "done"
    /\ mode = "pages"
    /\ lines = <<>>

\* C15: every Section title of section_text_with_pages and
\* section_text_bold_aware has at most max_title_len characters and the
\* marker, and a title that was cut ends with the marker.
C15_TitlesCutWithMarker ==
    \A k \in 1..Len(sections) :
        /\ sections[k].title.len <= max_title_len + 1
        /\ sections[k].title.len > max_title_len => sections[k].title.marker
        /\ sections[k].title.cut => sections[k].title.marker

\* line k of the input opens a section
OpensSection(k) ==
    IF mode = "pages" THEN DefMatches(lines[k]) \/ IsHeaderPages(lines, k)
    ELSE IsTitle(lines[k])

\* a section is open: its title is set or its body is not empty
SectionOpen == cur_title # NoTitle \/ cur_body # <<>>

\* the line that opened the section, 0 for a section without a header
FirstLine(s) == IF s.title.part \in {"line", "term"} THEN s.title.line ELSE 0

\* the nearest line at or before line k that opens a section, 0 if none
HeaderBefore(k) ==
    IF \E h \in 1..k : OpensSection(h)
    THEN CHOOSE h \in 1..k :
             OpensSection(h) /\ \A g \in (h + 1)..k : ~OpensSection(g)
    ELSE 0

\* a header processed while a section is open emits that section, with the
\* open body, and opens the section of the header
FlushedBeforeOpening ==
    (line_i' = line_i + 1 /\ OpensSection(line_i + 1) /\ SectionOpen) =>
        /\ Len(sections') = Len(sections) + 1
        /\ SubSeq(sections', 1, Len(sections)) = sections
        /\ sections'[Len(sections')].text =
               (IF mode = "pages" THEN NonBlank(cur_body) ELSE cur_body)
        /\ cur_title # NoTitle => sections'[Len(sections')].title = cur_title
        /\ FirstLine([title |-> cur_title']) = line_i + 1

\* the sections returned follow the order of the lines that opened them, each
\* such line has its section, and every body line is in the section of the
\* nearest header before it
InDocumentOrder ==
    sect_pc = "done" =>
        /\ \A j \in 1..Len(sections), k \in 1..Len(sections) :
               j < k => FirstLine(sections[j]) < FirstLine(sections[k])
        /\ \A h \in 1..Len(lines) :
               OpensSection(h) => \E k \in 1..Len(sections) : FirstLine(sections[k]) = h
        /\ \A k \in 1..Len(sections) : \A e \in 1..Len(sections[k].text) :
               sections[k].text[e].part \in {"line", "rest"}
                   => HeaderBefore(sections[k].text[e].line) = FirstLine(sections[k])
        /\ \A n \in 1..Len(lines) :
               (~OpensSection(n) /\ lines[n].kind # "blank") =>
                   \E k \in 1..Len(sections) : \E e \in 1..Len(sections[k].text) :
                       /\ sections[k].text[e].line = n
                       /\ sections[k].text[e].part = "line"

\* C20: whenever a line classified as a header or a definition header is
\* processed while a section is open, the open section is emitted before the
\* new one is opened; so the sections come out in the document order of
\* their first lines and every body line is in the section opened by the
\* nearest header before it, or in a leading section without a header.
C20_FlushBeforeOpen == [][FlushedBeforeOpening]_vars /\ []InDocumentOrder

\* C20 witness: section_text_with_pages returned a leading section without a
\* header and then the section of the header on line 2 with line 3 as body.
C20_Witness ==
    /\ sect_pc = "done"
    /\ mode = "pages"
    /\ Len(sections) = 2
    /\ FirstLine(sections[1]) = 0
    /\ sections[1].text # <<>>
    /\ FirstLine(sections[2]) = 2
    /\ Len(sections[2].text) = 1
    /\ sections[2].text[1].line = 3

\* C21 as stated: a section opened by a header or a definition header on page
\* p is returned with page_start <= p <= page_end, and with page_start =
\* page_end = p when none of its body lines is on another page.
C21_PageRangeSeededByHeader ==
    sect_pc = "done" =>
        \A k \in 1..Len(sections) :
            FirstLine(sections[k]) > 0 =>
                LET p == lines[FirstLine(sections[k])].pno
                    s == sections[k]
                IN  /\ s.page_start <= p
                    /\ p <= s.page_end
                    /\ (\A e \in 1..Len(s.text) :
                            s.text[e].line > 0 => lines[s.text[e].line].pno = p)
                           => (s.page_start = p /\ s.page_end = p)

\* the step over a line that is not a header: the line joins the body of the
\* open section (which has no title if none was open), the page range grows
\* to hold the line's page, the title stays and no section is emitted
BodyLineAppended ==
    (line_i' = line_i + 1 /\ ~OpensSection(line_i + 1)) =>
        LET ln == lines[line_i + 1]
        IN  /\ cur_body' = Append(cur_body, BodyOf(ln))
            /\ cur_title' = cur_title
            /\ sections' = sections
            /\ cur_min_page' <= ln.pno
            /\ ln.pno <= cur_max_page'
            /\ cur_min_page # NoPage =>
                   /\ cur_min_page' <= cur_min_page
                   /\ cur_max_page' >= cur_max_page
                   /\ cur_min_page' \in {cur_min_page, ln.pno}
                   /\ cur_max_page' \in {cur_max_page, ln.pno}
            /\ cur_min_page = NoPage =>
                   (cur_min_page' = ln.pno /\ cur_max_page' = ln.pno)

\* C22: on a body line the section builders append the line to the body of
\* the open section, opening a section without title if none is open, and
\* extend [min_page, max_page] to include the line's page; the title of the
\* open section is unchanged and no section is emitted by the step.
C22_BodyLineExtendsOpenSection == [][BodyLineAppended]_vars

\* C22 witness: two body lines on different pages are the body of an open
\* section without title.
C22_Witness ==
    /\ sect_pc = "loop"
    /\ cur_title = NoTitle
    /\ Len(cur_body) = 2
    /\ cur_body[2].part = "line"
    /\ cur_min_page < cur_max_page
    /\ sections = <<>>

\* the return step emits the open section, and nothing if none is open
LastFlush ==
    (sect_pc = "loop" /\ sect_pc' = "done") =>
        IF SectionOpen
        THEN /\ Len(sections') = Len(sections) + 1
             /\ \A k \in 1..Len(sections) :
                    FirstLine(sections'[k]) = FirstLine(sections[k])
             /\ FirstLine(sections'[Len(sections')]) = FirstLine([title |-> cur_title])
        ELSE sections' = sections

\* the lines that open a section
HeaderLines == {h \in 1..Len(lines) : OpensSection(h)}

\* every header line has exactly one section, and the only other section
\* is that of the lines before the first header
OneSectionPerHeader ==
    sect_pc = "done" =>
        /\ \A h \in HeaderLines :
               Cardinality({k \in 1..Len(sections) : FirstLine(sections[k]) = h}) = 1
        /\ Len(sections) = Cardinality(HeaderLines)
                              + (IF lines # <<>> /\ 1 \notin HeaderLines THEN 1 ELSE 0)

\* C23: at the end of the input the section builders emit the open section;
\* a section is withheld only when it has neither title nor body lines; so
\* every header line of the input has exactly one Section in the result.
C23_EndOfInputFlushes == [][LastFlush]_vars /\ []OneSectionPerHeader

\* C23 witness: section_text_with_pages returned for an input whose last line
\* is a header: its section has no body.
C23_Witness ==
    /\ sect_pc = "done"
    /\ mode = "pages"
    /\ Len(lines) >= 2
    /\ Len(lines) \in HeaderLines
    /\ sections # <<>>
    /\ FirstLine(sections[Len(sections)]) = Len(lines)
    /\ sections[Len(sections)].text = <<>>

\* C24 as stated: the title of a returned section is the explicit title when
\* a header set one; otherwise the first sentence of the body, cut to 160
\* characters with the marker only when it is longer; otherwise, with an
\* empty body, the literal "Untitled".  Both builders.
C24_TitleRuleOfFlush ==
    \A k \in 1..Len(sections) :
        LET s == sections[k]
            h == FirstLine(s)
        IN  IF h > 0 THEN s.title.of = TitleOf(lines[h]).of
            ELSE IF NonBlank(s.text) = <<>> THEN s.title = Untitled
            ELSE /\ s.title.part = "first_sentence"
                 /\ s.title.of = NonBlank(s.text)[1].of
                 /\ s.title.marker <=> NonBlank(s.text)[1].len > max_title_len
                 /\ s.title.len = IF NonBlank(s.text)[1].len > max_title_len
                                  THEN max_title_len + 1
                                  ELSE NonBlank(s.text)[1].len

\* C27 as stated: a line with two or more glued numbered definitions is cut
\* at the start of each definition into sub-lines, each of which opens a
\* section of its own: the line has at least two sections in the result.
C27_GluedDefinitionsAreSplit ==
    sect_pc = "done" =>
        \A h \in 1..Len(lines) :
            (IsGlued(lines[h]) /\ OpensSection(h)) =>
                Cardinality({k \in 1..Len(sections) : FirstLine(sections[k]) = h}) >= 2

\* C28 as stated: in section_text_bold_aware a definition header or a
\* structural header has a section of its own exactly when its first span
\* is bold, and an all-caps header has one whether its first span is bold
\* or not.
C28_AllCapsOpensWithoutBold ==
    (sect_pc = "done" /\ mode = "bold") =>
        \A h \in 1..Len(lines) :
            LET opened == \E k \in 1..Len(sections) : FirstLine(sections[k]) = h
            IN  /\ lines[h].kind \in {"def", "defrest", "defglued", "section", "longsection"}
                       => (opened <=> lines[h].bold)
                /\ lines[h].kind = "caps" => opened

----------------------------------------------------------------------------
(* app/routes/contracts.py: upload_contract *)

\* titles = ["" for _ in sections]
EmptyStr == Str("", "none", 0, 0)

\* a chunk returned by chunk_text: a stripped string that is not empty
ChunkStr(len) == Str("chunk text", "chunk", 0, len)

\* lines 149-151 and 162-164: a list of strings is a list of bodies with
\* empty titles and no pages
FromChunks(cs) ==
    [k \in 1..Len(cs) |->
        [title |-> EmptyStr, text |-> <<cs[k]>>,
         page_start |-> NoPage, page_end |-> NoPage]]

\* line 177: the body is empty and the title has more than 200 characters
MisdetectedHeader(s) == s.text = <<>> /\ s.title.len > 200

FixedBodyOrTitle(s) ==
    IF s.text = <<>> THEN <<[s.title EXCEPT !.part = "title"]>> ELSE s.text

\* lines 176-179: bb
FixedBody(s) ==
    IF MisdetectedHeader(s) THEN <<[s.title EXCEPT !.part = "title"]>> ELSE s.text

\* lines 175-187: tt
FixedTitle(s) ==
    LET moved == IF MisdetectedHeader(s) THEN CutWithMarker(s.title, 160) ELSE s.title
        named == IF moved.len = 0 THEN BodyStart(FixedBody(s), 160) ELSE moved
    IN  IF named.len > 160 THEN CutWithMarker(named, 160) ELSE named

ChunkIndexedFromOne(objs, i, with_pages) ==
    [chunk_index |-> i + 1,
     text |-> FixedBody(objs[i + 1]),
     title |-> FixedTitle(objs[i + 1]),
     page_start |-> IF with_pages THEN objs[i + 1].page_start ELSE NoPage,
     page_end |-> IF with_pages THEN objs[i + 1].page_end ELSE NoPage]

\* lines 214-220: the metadata of chunk i (0-based) with its document
Chunk(objs, i, with_pages) ==
    [chunk_index |-> i,
     text |-> FixedBody(objs[i + 1]),
     title |-> FixedTitle(objs[i + 1]),
     page_start |-> IF with_pages THEN objs[i + 1].page_start ELSE NoPage,
     page_end |-> IF with_pages THEN objs[i + 1].page_end ELSE NoPage]

\* lines 54-60 of embeddings.py: the metadata store_embeddings builds from
\* titles when it gets no metadatas
ChunkFromTitles(objs, i) ==
    [chunk_index |-> i,
     text |-> FixedBody(objs[i + 1]),
     title |-> FixedTitle(objs[i + 1]),
     page_start |-> NoPage,
     page_end |-> NoPage]

\* what the calls of store_embeddings may do: the first call stores; or it
\* raises TypeError and the second call, with titles, stores; or a call
\* raises another exception
StoreOutcomes == {"stored", "stored_by_titles", "raised"}

\* HTTPException(status_code, detail)
Refused(status, detail) == [status |-> status, detail |-> detail]

\* lines 168-232: from the sections to the response
Finish(objs, with_pages, no_sections, embed_ok, store) ==
    /\ sec_objs' = objs
    /\ IF objs = <<>>
       THEN /\ up_response' = Refused(400, no_sections)
            /\ stored' = <<>>
       ELSE IF \E k \in 1..Len(objs) : FixedBody(objs[k]) = <<>>
       THEN /\ up_response' = Refused(500, "Empty document body detected")
            /\ stored' = <<>>
       ELSE IF ~embed_ok
       THEN /\ up_response' = Refused(500, "Embedding failed")
            /\ stored' = <<>>
       ELSE IF store = "raised"
       THEN /\ up_response' = Refused(500, "store_embeddings raised")
            /\ stored' = <<>>
       ELSE /\ up_response' = [status |-> 200, chunks_processed |-> Len(objs)]
            /\ stored' = [k \in 1..Len(objs) |->
                              IF store = "stored"
                              THEN Chunk(objs, k - 1, with_pages /\ k - 1 < Len(objs))
                              ELSE ChunkFromTitles(objs, k - 1)]
    /\ up_pc' = "returned"

\* the lists chunk_text returns for a text that is not blank
ChunkLists == UNION {[1..n -> {ChunkStr(5), ChunkStr(1199)}] : n \in 1..MaxChunks}

\* lines 105-107, 126-127, 139-140, 154-155, 166: the file has no extension
\* or one that is not supported, or no text was extracted
UploadRefuse ==
    /\ up_pc = "start"
    /\ sect_pc = "idle"
    /\ \E detail \in {"File must have an extension", "Unsupported file type",
                       "No text extracted from PDF pages",
                       "Could not extract text from PDF",
                       "Could not extract text from image"} :
           up_response' = Refused(400, detail)
    /\ up_pc' = "returned"
    /\ UNCHANGED <<sec_objs, stored, splitVars, hlVars, polVars, sectVars, ckVars, mgVars, hdVars>>

\* lines 136-164: a PDF without the page pipeline, or an image: the sections
\* are the chunks of chunk_text
UploadChunked ==
    /\ up_pc = "start"
    /\ sect_pc = "idle"
    /\ \E cs \in ChunkLists, embed_ok \in BOOLEAN, store \in StoreOutcomes :
           Finish(FromChunks(cs), FALSE, "Could not segment PDF into sections",
                  embed_ok, store)
    /\ UNCHANGED <<splitVars, hlVars, polVars, sectVars, ckVars, mgVars, hdVars>>

\* lines 123-134: a PDF with the page pipeline: the sections are those
\* section_text_best returned
UploadSectioned ==
    /\ up_pc = "start"
    /\ sect_pc = "done"
    /\ \E embed_ok \in BOOLEAN, store \in StoreOutcomes :
           Finish(sections, TRUE, "Could not segment PDF into sections", embed_ok, store)
    /\ UNCHANGED <<splitVars, hlVars, polVars, sectVars, ckVars, mgVars, hdVars>>

\* one request: the section builder is called on the lines of the document
\* (all on page 1 when section_text_best falls back to
\* section_text_with_pages), or not at all
InitUpload ==
    /\ up_pc = "start"
    /\ sec_objs = <<>>
    /\ stored = <<>>
    /\ up_response = [status |-> 0]
    /\ \/ InitSectionBuilder(TitlePageLines, TitleBoldLines, MaxTitleLines)
       \/ SectIdle /\ SplitIdle /\ HlIdle /\ PolIdle /\ ChunkIdle /\ MergeIdle /\ HdIdle

NextUpload == NextSections \/ UploadRefuse \/ UploadChunked \/ UploadSectioned

SpecUpload == InitUpload /\ [][NextUpload]_vars

\* a request to auto_violation or check_policy_violation, or an upload
InitRoutes == InitPolicies \/ (InitUpload /\ PolIdle)

NextRoutes == NextPolicies \/ NextUpload

SpecRoutes == InitRoutes /\ [][NextRoutes]_vars

----------------------------------------------------------------------------
(* Claims about the routes *)

\* C14: when no chunk is retrieved for a contract, auto_violation answers
\* with overall_risk 100 and no violations, having called neither the
\* playbook loader nor the LLM; and upload_contract answers a document that
\* gave no sections with an error and stores nothing.
C14_NoSectionsIsHighRisk ==
    /\ (route = "auto" /\ broad = "empty") =>
           /\ pol_pc = "returned"
           /\ response.status = 200
           /\ response.overall_risk = 100
           /\ response.violations = <<>>
           /\ calls \cap {"_load_playbook", "gemini_json"} = {}
    /\ (up_pc = "returned" /\ sect_pc = "done" /\ sections = <<>>) =>
           /\ up_response.status = 400
           /\ stored = <<>>

\* C14 witness: auto_violation answered a request for a contract without
\* retrieved chunks.
C14_Witness ==
    /\ pol_pc = "returned"
    /\ route = "auto"
    /\ broad = "empty"
    /\ response.status = 200
    /\ response.overall_risk = 100

\* the upload succeeded
Uploaded == up_pc = "returned" /\ up_response.status = 200

\* the stored chunks are one per section, in order, with chunk_index 0, 1, ...
OnePerSectionInOrder ==
    /\ Len(stored) = Len(sec_objs)
    /\ \A k \in 1..Len(stored) :
           /\ stored[k].chunk_index = k - 1
           /\ stored[k].text = FixedBody(sec_objs[k])

C29_NoEmptyChunkStored ==
    /\ \A k \in 1..Len(stored) : stored[k].text # <<>>
    /\ (up_pc = "returned"
           /\ \E k \in 1..Len(sec_objs) :
                  sec_objs[k].text = <<>> /\ sec_objs[k].title.len <= 200) =>
           /\ stored = <<>>
           /\ up_response.status = 500
           /\ up_response.detail = "Empty document body detected"

\* C29 witness: an upload of a header without body followed by a section
\* with a body ended with the error and stored nothing.
C29_Witness ==
    /\ up_pc = "returned"
    /\ Len(sec_objs) = 2
    /\ sec_objs[1].text = <<>>
    /\ sec_objs[1].title.len <= 200
    /\ sec_objs[2].text # <<>>
    /\ up_response.status = 500
    /\ stored = <<>>

----------------------------------------------------------------------------
(* app/services/chunk.py: chunk_text *)

\* the characters of the texts: a letter, a sentence end, whitespace
Characters == {"a", ".", " "}

\* [\.\?\!]
SentenceEnd == {".", "?", "!"}

\* \s
Whitespace == {" "}

MinOf(S) == CHOOSE x \in S : \A y \in S : x <= y

MaxOf(S) == CHOOSE x \in S : \A y \in S : x >= y

\* the number of whitespace characters s starts with
LeadingSpace(s) ==
    LET inked == {i \in 1..Len(s) : s[i] \notin Whitespace}
    IN  IF inked = {} THEN Len(s) ELSE MinOf(inked) - 1

\* s.strip()
Strip(s) ==
    LET inked == {i \in 1..Len(s) : s[i] \notin Whitespace}
    IN  IF inked = {} THEN <<>> ELSE SubSeq(s, MinOf(inked), MaxOf(inked))

RECURSIVE SplitSentences(_)
\* re.split(r'(?<=[\.\?\!])\s+', t): t is cut at every run of whitespace that
\* follows a sentence end, and the run is dropped
SplitSentences(t) ==
    LET breaks == {i \in 2..Len(t) : t[i] \in Whitespace /\ t[i - 1] \in SentenceEnd}
    IN  IF breaks = {} THEN <<t>>
        ELSE LET i == MinOf(breaks)
                 after == {j \in i..Len(t) : t[j] \notin Whitespace}
             IN  IF after = {} THEN <<SubSeq(t, 1, i - 1), <<>>>>
                 ELSE <<SubSeq(t, 1, i - 1)>>
                          \o SplitSentences(SubSeq(t, MinOf(after), Len(t)))

PackedAlone(cur, sentence) == sentence

\* line 23: current_chunk += (" " if current_chunk else "") + sentence
Packed(cur, sentence) ==
    cur \o (IF cur # <<>> THEN <<" ">> ELSE <<>>) \o sentence

\* line 28: current_chunk[-overlap:] if len(current_chunk) > overlap else
\* current_chunk; current_chunk[-0:] is all of current_chunk
OverlapText(cur, ov) ==
    IF Len(cur) > ov
    THEN IF ov = 0 THEN cur ELSE SubSeq(cur, Len(cur) - ov + 1, Len(cur))
    ELSE cur

\* lines 25-26, 32-33: chunks.append(current_chunk.strip()) if it is not blank;
\* seed is the number of its leading characters that are overlap_text
Appended(chs, cur, seed) ==
    IF Strip(cur) # <<>>
    THEN Append(chs, [text |-> Strip(cur),
                      seed |-> IF seed > LeadingSpace(cur)
                               THEN seed - LeadingSpace(cur) ELSE 0])
    ELSE chs

\* lines 21-29: one sentence
ChunkSentence ==
    /\ ck_pc = "loop"
    /\ sent_i < Len(sentences)
    /\ LET sentence == sentences[sent_i + 1]
       IN  IF Len(current_chunk) + Len(sentence) < max_length
           THEN /\ current_chunk' = Packed(current_chunk, sentence)
                /\ UNCHANGED <<chunks_out, cur_seed>>
           ELSE /\ chunks_out' = Appended(chunks_out, current_chunk, cur_seed)
                /\ current_chunk' =
                       OverlapText(current_chunk, overlap) \o <<" ">> \o sentence
                /\ cur_seed' = Len(OverlapText(current_chunk, overlap))
    /\ sent_i' = sent_i + 1
    /\ UNCHANGED <<ck_pc, ck_text, max_length, overlap, sentences,
                   splitVars, hlVars, polVars, sectVars, upVars, mgVars, hdVars>>

\* lines 31-35: the remaining chunk
ChunkReturn ==
    /\ ck_pc = "loop"
    /\ sent_i = Len(sentences)
    /\ chunks_out' = Appended(chunks_out, current_chunk, cur_seed)
    /\ ck_pc' = "done"
    /\ UNCHANGED <<ck_text, max_length, overlap, sentences, sent_i, current_chunk,
                   cur_seed, splitVars, hlVars, polVars, sectVars, upVars, mgVars, hdVars>>

\* chunk_text(text, max_length, overlap) after lines 16-19
InitChunk ==
    /\ \E n \in 0..MaxText : ck_text \in [1..n -> Characters]
    /\ max_length \in 1..MaxMaxLength
    /\ overlap \in 0..MaxOverlap
    /\ sentences = SplitSentences(Strip(ck_text))
    /\ sent_i = 0
    /\ chunks_out = <<>>
    /\ current_chunk = <<>>
    /\ cur_seed = 0
    /\ ck_pc = "loop"
    /\ SplitIdle
    /\ HlIdle
    /\ PolIdle
    /\ SectIdle
    /\ UpIdle
    /\ MergeIdle
    /\ HdIdle

NextChunk == ChunkSentence \/ ChunkReturn

SpecChunk == InitChunk /\ [][NextChunk]_vars

----------------------------------------------------------------------------
(* Claims about chunk_text *)

\* C17 as stated: a chunk of chunk_text is longer than max_length only when
\* it is one sentence of the text that is itself longer than max_length.
C17_OnlyASentenceIsOversized ==
    \A k \in 1..Len(chunks_out) :
        Len(chunks_out[k].text) > max_length =>
            \E j \in 1..Len(sentences) : chunks_out[k].text = sentences[j]

\* the length of the longest sentence of the text
LongestSentence == MaxOf({Len(sentences[j]) : j \in 1..Len(sentences)})

\* C18 as stated: every chunk of chunk_text has at most max_length plus the
\* length of its longest sentence characters (no sentence of a chunk is
\* longer than the longest sentence of the text).
C18_AtMostMaxLengthPlusSentence ==
    \A k \in 1..Len(chunks_out) :
        Len(chunks_out[k].text) <= max_length + LongestSentence

\* chunk without its seed
Unseeded(chunk) == SubSeq(chunk.text, chunk.seed + 1, Len(chunk.text))

RECURSIVE SentencesOf(_)
\* the sentences of the chunks, seeds left out, in order
SentencesOf(chs) ==
    IF chs = <<>> THEN <<>>
    ELSE SelectSeq(SplitSentences(Strip(Unseeded(Head(chs)))), LAMBDA s : s # <<>>)
            \o SentencesOf(Tail(chs))

\* C19: when chunk_text has returned, the chunks without their overlap seeds
\* hold, in order, exactly the sentences of the text, each once; and no
\* chunk is empty.
C19_NoSentenceLostOrDuplicated ==
    /\ \A k \in 1..Len(chunks_out) : chunks_out[k].text # <<>>
    /\ ck_pc = "done" =>
           SentencesOf(chunks_out) = SelectSeq(sentences, LAMBDA s : s # <<>>)

\* C19 witness: chunk_text returned three chunks for three sentences, the
\* second and third with a seed.
C19_Witness ==
    /\ ck_pc = "done"
    /\ Len(sentences) = 3
    /\ Len(chunks_out) = 3
    /\ chunks_out[2].seed > 0
    /\ chunks_out[3].seed > 0

----------------------------------------------------------------------------
(* app/services/sectioner.py: merge_soft_wraps *)

\* str.islower() letters and str.isupper() letters of the lines
Lower == {"a"}
Upper == {"B"}

\* the lines given to merge_soft_wraps: "", " ", "a", "a-", "a.", "a:", "aB",
\* "Ba", "-", " a", "B. B"
MergeInputLines ==
    { <<>>, <<" ">>, <<"a">>, <<"a", "-">>, <<"a", ".">>, <<"a", ":">>,
      <<"a", "B">>, <<"B", "a">>, <<"-">>, <<" ", "a">>, <<"B", ".", " ", "B">> }

\* s.rstrip()
RStrip(s) ==
    LET inked == {i \in 1..Len(s) : s[i] \notin Whitespace}
    IN  IF inked = {} THEN <<>> ELSE SubSeq(s, 1, MaxOf(inked))

\* s.islower(): a cased character, and none in upper case
IsLower(s) ==
    /\ \E i \in 1..Len(s) : s[i] \in Lower
    /\ \A i \in 1..Len(s) : s[i] \notin Upper

\* s.endswith(ends)
EndsWith(s, ends) == s # <<>> /\ s[Len(s)] \in ends

\* RE_LETTERED: ^[A-Z][.)]\s+[A-Z]
Lettered(s) ==
    /\ Len(s) >= 4
    /\ s[1] \in Upper
    /\ s[2] \in {".", ")"}
    /\ s[3] \in Whitespace
    /\ \E j \in 4..Len(s) : s[j] \in Upper /\ \A i \in 3..(j - 1) : s[i] \in Whitespace

RECURSIVE TitleCase(_, _)
\* RE_TITLE_CASE: ^[A-Z][a-z]+(?:\s+[A-Z][a-z]+){0,7}$ for a text of at most
\* n words
TitleCase(s, n) ==
    /\ n > 0
    /\ Len(s) >= 2
    /\ s[1] \in Upper
    /\ s[2] \in Lower
    /\ LET e == MaxOf({j \in 2..Len(s) : \A i \in 2..j : s[i] \in Lower})
       IN  \/ e = Len(s)
           \/ /\ s[e + 1] \in Whitespace
              /\ TitleCase(Strip(SubSeq(s, e + 1, Len(s))), n - 1)

\* lines 43-47: looks_like_header(line); the patterns with digits or the
\* words Section / Article match none of the lines
looks_like_header(line) ==
    LET s == Strip(line) IN Lettered(s) \/ TitleCase(s, 8)

JoinedNoSpace(b, ln) == b \o Strip(ln)

\* line 64: buf += " " + ln.strip()
Joined(b, ln) == b \o <<" ">> \o Strip(ln)

\* lines 51-69: one line
MergeLine ==
    /\ mg_pc = "loop"
    /\ mg_i < Len(mg_lines)
    /\ LET ln == RStrip(mg_lines[mg_i + 1])
       IN  IF Strip(ln) = <<>>
           THEN /\ mg_merged' = (IF buf # <<>> THEN Append(mg_merged, Strip(buf))
                                 ELSE mg_merged) \o << <<>> >>
                /\ buf' = <<>>
           ELSE IF buf = <<>>
           THEN /\ buf' = Strip(ln)
                /\ UNCHANGED mg_merged
           ELSE IF EndsWith(buf, {"-"}) /\ ln # <<>> /\ IsLower(ln)
           THEN /\ buf' = SubSeq(buf, 1, Len(buf) - 1) \o Strip(ln)
                /\ UNCHANGED mg_merged
           ELSE IF ~EndsWith(buf, {".", "!", "?", ":", ";"}) /\ ~looks_like_header(ln)
           THEN /\ buf' = Joined(buf, ln)
                /\ UNCHANGED mg_merged
           ELSE /\ mg_merged' = Append(mg_merged, Strip(buf))
                /\ buf' = Strip(ln)
    /\ mg_i' = mg_i + 1
    /\ UNCHANGED <<mg_pc, mg_lines, splitVars, hlVars, polVars, sectVars, upVars,
                   ckVars, hdVars>>

\* lines 70-72: the last paragraph
MergeReturn ==
    /\ mg_pc = "loop"
    /\ mg_i = Len(mg_lines)
    /\ mg_merged' = IF buf # <<>> THEN Append(mg_merged, Strip(buf)) ELSE mg_merged
    /\ mg_pc' = "done"
    /\ UNCHANGED <<mg_lines, mg_i, buf, splitVars, hlVars, polVars, sectVars, upVars,
                   ckVars, hdVars>>

\* merge_soft_wraps(lines) after line 50
InitMerge ==
    /\ \E n \in 0..MaxMergeLines : mg_lines \in [1..n -> MergeInputLines]
    /\ mg_i = 0
    /\ mg_merged = <<>>
    /\ buf = <<>>
    /\ mg_pc = "loop"
    /\ SplitIdle
    /\ HlIdle
    /\ PolIdle
    /\ SectIdle
    /\ UpIdle
    /\ ChunkIdle
    /\ HdIdle

NextMerge == MergeLine \/ MergeReturn

SpecMerge == InitMerge /\ [][NextMerge]_vars

----------------------------------------------------------------------------
(* Claims about merge_soft_wraps *)

\* the line the loop looks at next, without the white space around it
ThisLine == Strip(mg_lines[mg_i + 1])

\* C25 as stated: when the accumulated paragraph ends with a hyphen and the
\* next line is not blank and begins with a lower-case letter, the step
\* removes the hyphen and appends the line without a space, whatever follows
\* the first letter of the line.
C25_HyphenRemovedBeforeLowercase ==
    [][(mg_i' = mg_i + 1 /\ EndsWith(buf, {"-"}) /\ ThisLine # <<>>
            /\ ThisLine[1] \in Lower)
        => (/\ buf' = SubSeq(buf, 1, Len(buf) - 1) \o ThisLine
            /\ mg_merged' = mg_merged)]_vars

\* the step over a line when the hyphen rule does not apply
JoinedOrClosed ==
    (mg_i' = mg_i + 1 /\ ~(EndsWith(buf, {"-"}) /\ IsLower(ThisLine))) =>
        IF ThisLine = <<>>
        THEN /\ buf' = <<>>
             /\ mg_merged' = (IF buf = <<>> THEN mg_merged ELSE Append(mg_merged, buf))
                                 \o << <<>> >>
        ELSE IF buf = <<>>
        THEN buf' = ThisLine /\ mg_merged' = mg_merged
        ELSE IF buf[Len(buf)] \notin {".", "!", "?", ":", ";"}
                /\ ~looks_like_header(ThisLine)
        THEN /\ Len(buf') = Len(buf) + 1 + Len(ThisLine)
             /\ SubSeq(buf', 1, Len(buf)) = buf
             /\ buf'[Len(buf) + 1] = " "
             /\ SubSeq(buf', Len(buf) + 2, Len(buf')) = ThisLine
             /\ mg_merged' = mg_merged
        ELSE /\ mg_merged' = Append(mg_merged, buf)
             /\ buf' = ThisLine

\* C26: when the hyphen rule does not apply, merge_soft_wraps joins a line
\* that is not blank to the accumulated paragraph with one space exactly when
\* the paragraph does not end in one of . ! ? : ; and the line does not look
\* like a header; otherwise it closes the paragraph and the line starts a new
\* one.  A blank line closes the paragraph and is kept as an entry of its own.
C26_JoinedWithOneSpaceOrClosed == [][JoinedOrClosed]_vars

\* C26 witness: of the lines "a", "a.", "Ba" the first two were joined with a
\* space and the third, which looks like a header, is a paragraph of its own.
C26_Witness ==
    /\ mg_pc = "done"
    /\ mg_lines = << <<"a">>, <<"a", ".">>, <<"B", "a">> >>
    /\ mg_merged = << <<"a", " ", "a", ".">>, <<"B", "a">> >>

----------------------------------------------------------------------------
(* app/routes/compliance_docx.py: highlight_docx *)

\* The documents of a contract with n chunks as the store returns them: each
\* stored once, in any order.  A document is named by the chunk_index it was
\* stored with.
ReturnOrders(n) ==
    {d \in [1..n -> 0..(n - 1)] : \A j, k \in 1..n : d[j] = d[k] => j = k}

\* lines 13-27: the request is refused without contract_id or without
\* chunks; otherwise the report is built from the violations of
\* auto_violation and chunks = docs[0]
HdStart ==
    /\ hd_pc = "start"
    /\ \E has_id \in BOOLEAN :
           hd_pc' = IF ~has_id \/ hd_docs = <<>> THEN "refused" ELSE "evidence"
    /\ UNCHANGED <<hd_docs, hd_claims, hd_shown, splitVars, hlVars, polVars, sectVars,
                   upVars, ckVars, mgVars>>

\* lines 38-46 of compliance_highlighter.py: one evidence claim; the
\* paragraph shows chunks[idx]
HdEvidence ==
    /\ hd_pc = "evidence"
    /\ hd_claims # <<>>
    /\ LET idx == Head(hd_claims)
       IN  hd_shown' = IF idx < 0 \/ idx >= Len(hd_docs) THEN hd_shown
                       ELSE Append(hd_shown, [chunk_index |-> idx,
                                              text_of |-> hd_docs[idx + 1]])
    /\ hd_claims' = Tail(hd_claims)
    /\ UNCHANGED <<hd_pc, hd_docs, splitVars, hlVars, polVars, sectVars, upVars,
                   ckVars, mgVars>>

\* lines 31-38: the report is saved and the request answered
HdReturn ==
    /\ hd_pc = "evidence"
    /\ hd_claims = <<>>
    /\ hd_pc' = "returned"
    /\ UNCHANGED <<hd_docs, hd_claims, hd_shown, splitVars, hlVars, polVars, sectVars,
                   upVars, ckVars, mgVars>>

\* a request for a contract of up to MaxStored chunks whose violations hold
\* up to MaxShown evidence claims with any chunk_index
InitHighlightDocx ==
    /\ hd_pc = "start"
    /\ \E n \in 0..MaxStored : hd_docs \in ReturnOrders(n)
    /\ \E n \in 0..MaxShown : hd_claims \in [1..n -> (0 - 1)..MaxStored]
    /\ hd_shown = <<>>
    /\ SplitIdle
    /\ HlIdle
    /\ PolIdle
    /\ SectIdle
    /\ UpIdle
    /\ ChunkIdle
    /\ MergeIdle

NextHighlightDocx == HdStart \/ HdEvidence \/ HdReturn

SpecHighlightDocx == InitHighlightDocx /\ [][NextHighlightDocx]_vars

\* C30 as stated: the text shown for an evidence claim with chunk_index k is
\* the text of the chunk stored with chunk_index k, in whatever order the
\* store returns the chunks of the contract.
C30_ShownTextIsTheIndexedChunk ==
    \A e \in 1..Len(hd_shown) : hd_shown[e].text_of = hd_shown[e].chunk_index

====
